---- MODULE Spec2Model ----
(***************************************************************************)
(* A model of bowness: the metadata store (fedtls), its signed-payload     *)
(* verifier, the TLS config manager and the metadata->trust bridge         *)
(* (server), and the per-connection authentication middleware.             *)
(*                                                                         *)
(* Time is a discrete clock `now`; a time.Duration is a signed integer of  *)
(* DurationBits bits counted in clock units, Second units to the second.   *)
(* Raw JWS bytes (a fetched body, the cache file) are document ids; JWSDoc *)
(* gives the structure the bytes parse to.  A *Metadata is an index into   *)
(* the heap `snapshots` (0 is the &Metadata{} of NewMetadataStore).        *)
(***************************************************************************)
EXTENDS Integers, Sequences, FiniteSets, TLC

\* ------------------------------------------------------------------ bounds
MaxTime == 2
MaxFetches == 2
MaxRequests == 2
MaxEntities == 3
MaxBurst == 2
MaxArrivals == 3
MaxMembers == 3

\* ------------------------------------------------- time and time.Duration
Second == 2
DurationBits == 5

DurationModulus == 2 ^ DurationBits

\* int64 arithmetic of time.Duration, at the model's width
WrapDuration(n) ==
    LET m == n % DurationModulus
    IN IF m >= DurationModulus \div 2 THEN m - DurationModulus ELSE m

\* time.Duration(seconds) * time.Second
SecondsToDuration(s) == WrapDuration(s * Second)

\* MetadataStoreOptions as configured
DefaultCacheTTL == 2
NetworkRetry == 1
BadContentRetry == 3

\* ------------------------------------------------------------ data model
NoExp == -1
Nil == -1

\* *string: <<>> is nil, <<s>> points to s
NilString == <<>>

Pin(alg, digest) == [Alg |-> alg, Digest |-> digest]
Client(pins) == [Pins |-> pins]

EntityE1 ==
    [EntityID |-> "e1", Issuers |-> <<"CA1">>,
     Clients |-> <<Client(<<Pin("sha256", "fpA")>>)>>,
     Organization |-> <<"Org One">>, OrganizationID |-> NilString]

EntityE2 ==
    [EntityID |-> "e2", Issuers |-> <<"CA2", "notPEM">>,
     Clients |-> <<Client(<<Pin("sha256", "fpB")>>)>>,
     Organization |-> NilString, OrganizationID |-> NilString]

\* The zero Metadata, &Metadata{}
EmptyMetadata == [CacheTTL |-> 0, Entities |-> <<>>]

\* json.Unmarshal(payload, &result) for Metadata: a payload is
\* [wellFormed, json]; absent fields keep their zero value.
DecodeMetadata(payload) ==
    IF ~payload.wellFormed
    THEN [ok |-> FALSE, md |-> EmptyMetadata]
    ELSE [ok |-> TRUE,
          md |-> [CacheTTL |-> IF "cache_ttl" \in DOMAIN payload.json
                               THEN payload.json.cache_ttl ELSE 0,
                  Entities |-> IF "entities" \in DOMAIN payload.json
                               THEN payload.json.entities ELSE <<>>]]

Sig(key, exp) == [key |-> key, exp |-> exp]
Payload(json) == [wellFormed |-> TRUE, json |-> json]
MalformedPayload == [wellFormed |-> FALSE, json |-> [x |-> 0]]

\* The byte strings the federation operator serves or the cache file holds.
\* 0 stands for bytes that are no JWS at all (an empty or truncated file).
JWSDoc(body) ==
    CASE body = 1 -> [parses |-> TRUE, sigs |-> <<Sig("k1", NoExp)>>,
                      payload |-> Payload([entities |-> <<EntityE1>>])]
      [] body = 2 -> [parses |-> TRUE, sigs |-> <<Sig("k1", 0)>>,
                      payload |-> Payload([cache_ttl |-> 1,
                                           entities |-> <<EntityE1, EntityE2>>])]
      [] body = 3 -> [parses |-> TRUE, sigs |-> <<Sig("k9", NoExp)>>,
                      payload |-> Payload([entities |-> <<EntityE2>>])]
      [] body = 4 -> [parses |-> TRUE, sigs |-> <<Sig("k1", NoExp)>>,
                      payload |-> MalformedPayload]
      [] body = 5 -> [parses |-> TRUE, sigs |-> <<Sig("k9", 0), Sig("k1", NoExp)>>,
                      payload |-> Payload([entities |-> <<EntityE1>>])]
      [] OTHER    -> [parses |-> FALSE, sigs |-> <<>>, payload |-> MalformedPayload]

TruncatedBody == 0
Bodies == 0 .. 5

\* jwk.Parse of the JWKS bytes: "keys" holds the key k1, "otherKeys" the key
\* k9, anything else does not parse
JwksParse(jwks) ==
    IF jwks = "keys" THEN [ok |-> TRUE, keys |-> {"k1"}]
    ELSE IF jwks = "otherKeys" THEN [ok |-> TRUE, keys |-> {"k9"}]
    ELSE [ok |-> FALSE, keys |-> {}]

\* ---------------------------------------------------------------- verify
\* Not the code: an expiry test that also rejects at the second of expiry
ExpiredInclusive(exp, t) == t >= exp * Second

\* time.Now().After(time.Unix(exp, 0))
Expired(exp, t) == t > exp * Second

\* Not the code: a verifier that does not look at exp
VerifyAnyExp(signed, jwks, t) ==
    LET keyset == JwksParse(jwks)
        message == JWSDoc(signed)
    IN IF ~keyset.ok \/ ~message.parses THEN [ok |-> FALSE, md |-> EmptyMetadata]
       ELSE IF ~\E i \in DOMAIN message.sigs : message.sigs[i].key \in keyset.keys
       THEN [ok |-> FALSE, md |-> EmptyMetadata]
       ELSE DecodeMetadata(message.payload)

\* verify(signed, jwks) called at time t: [ok, md]; ok = FALSE is the error
\* return (nil, err)
Verify(signed, jwks, t) ==
    LET keyset == JwksParse(jwks)
        message == JWSDoc(signed)
    IN IF ~keyset.ok THEN [ok |-> FALSE, md |-> EmptyMetadata]
       ELSE IF ~message.parses THEN [ok |-> FALSE, md |-> EmptyMetadata]
       ELSE IF ~\E i \in DOMAIN message.sigs : message.sigs[i].key \in keyset.keys
       THEN [ok |-> FALSE, md |-> EmptyMetadata]
       ELSE IF message.sigs[1].exp # NoExp /\ Expired(message.sigs[1].exp, t)
       THEN [ok |-> FALSE, md |-> EmptyMetadata]
       ELSE DecodeMetadata(message.payload)

\* ------------------------------------------------------- refresh schedule
cacheTTL(metadataTTL, defaultTTL) ==
    IF metadataTTL # 0 THEN metadataTTL ELSE defaultTTL

\* Not the code: a schedule that trusts a modification time in the future
durationToRefreshFromMTime(lastFetch, ttl, t) ==
    LET timeToRefresh == lastFetch + ttl
    IN IF timeToRefresh < t THEN 0 ELSE timeToRefresh - t

\* durationToRefresh(lastFetch, cacheTTL) evaluated at time t
durationToRefresh(lastFetch, ttl, t) ==
    LET last == IF lastFetch > t THEN t ELSE lastFetch
        timeToRefresh == last + ttl
    IN IF timeToRefresh < t THEN 0 ELSE timeToRefresh - t

\* time.After(d) called at time t: the channel delivers once, at t + d
After(d, t) == [armed |-> TRUE, at |-> t + d, delay |-> d]

\* Not the code: a timer channel that delivers again, as a ticker's does
FiredStaysArmed(timer) == timer

\* The channel of time.After once the select has received from it: nothing
\* comes out of it again
Fired(timer) == [armed |-> FALSE, at |-> 0, delay |-> 0]

\* ------------------------------------------------------------ trust pool
\* x509 CertPool.AppendCertsFromPEM: the certificates a PEM text holds
ParsePEM(pem) == IF pem = "notPEM" THEN {} ELSE {pem}

\* issuersPerEntity: a map keyed by entity id; a later entity with the same
\* id replaces the entry of an earlier one
issuersPerEntity(metadata) ==
    LET ids == {metadata.Entities[i].EntityID : i \in DOMAIN metadata.Entities}
        last(id) == CHOOSE i \in DOMAIN metadata.Entities :
                        /\ metadata.Entities[i].EntityID = id
                        /\ \A j \in DOMAIN metadata.Entities :
                               metadata.Entities[j].EntityID = id => j <= i
    IN [id \in ids |-> metadata.Entities[last(id)].Issuers]

buildCertPool(issuers) ==
    UNION {UNION {ParsePEM(issuers[id][k]) : k \in DOMAIN issuers[id]} : id \in DOMAIN issuers}

\* Not the code: a base config that asks for no client certificate
baseTLSConfigNoClientAuth(certs) ==
    [Certificates |-> certs, ClientAuth |-> "NoClientCert",
     MinVersion |-> "VersionTLS12", PreferServerCipherSuites |-> TRUE,
     GetConfigForClient |-> FALSE, ClientCAs |-> {}, from |-> Nil, addr |-> 0]

\* baseTLSConfig(certs): a new tls.Config; addr is where it is allocated, which
\* the caller sets, and from the snapshot its ClientCAs were built from
baseTLSConfig(certs) ==
    [Certificates |-> certs, ClientAuth |-> "RequireAndVerifyClientCert",
     MinVersion |-> "VersionTLS12", PreferServerCipherSuites |-> TRUE,
     GetConfigForClient |-> FALSE, ClientCAs |-> {}, from |-> Nil, addr |-> 0]

ServerCerts == "serverKeyPair"

\* ------------------------------------------------------------------ state
VARIABLES
    now,            \* the wall clock
    jwksFile,       \* the file at jwksPath: "keys", "garbage" or "missing"
    cacheFile,      \* the file at cachedPath: a body, Absent or Unreadable
    cacheMTime,     \* its modification time as start-up finds it
    snapshots,      \* heap of the *Metadata values verify has returned
    parsed,         \* mdstore.parsed: 0 (the initial &Metadata{}) or an index of snapshots
    fetcherPc,      \* metadataFetcher: start, loop, notify, ack, stopped, fatal
    listeners,      \* metadataFetcher's listeners slice
    notifyIdx,      \* notifyAll's position in listeners
    retry,          \* the timer channel `retry`
    fetchResult,    \* the fetchResult being handled
    fetchPc,        \* per fetch goroutine: unborn, get, send, close, done
    fetchRes,       \* per fetch goroutine: the fetchResult it delivers
    bodyOpen,       \* per fetch goroutine: response.Body is open
    mainPc,         \* the caller: addListener, updateTrust, setTrusted, serving, quitSend, quitRecv, done
    mainPool,       \* the pool the constructor's updateTrust has built
    bridgePc,       \* the bridge goroutine: unborn, wait, build, install
    bridgePool,     \* the pool the bridge goroutine's updateTrust has built
    auxPc,          \* a second subscriber: idle, listening
    mgr,            \* the TLSConfigManager; a *tls.Config is <<>> (nil) or <<c>>
    hello,          \* the last ClientHello's answer; n alternates with every ClientHello
    history,        \* what the refresh loop and the listeners have seen so far
    call,           \* a call of verify: its arguments, the time, the result
    conn,           \* a connection's ContextConnection and the requests served on it
    lim,            \* the Limiter middleware: its map of limiters and its requests
    mu              \* mdstore.lock: "free", or "task" while the task is in setNewParsed

vars == <<now, jwksFile, cacheFile, cacheMTime, snapshots, parsed, fetcherPc,
          listeners, notifyIdx, retry, fetchResult, fetchPc, fetchRes, bodyOpen,
          mainPc, mainPool, bridgePc, bridgePool, auxPc, mgr, hello,
          history, call, conn, lim, mu>>

Absent == -1
Unreadable == -2

Fetches == 1 .. MaxFetches

\* Who calls AddChangeListener: the bridge and a second subscriber
Subscribers == {"bridge", "aux"}

\* *mdstore.parsed
Snapshot(p) == IF p = 0 THEN EmptyMetadata ELSE snapshots[p]

\* NewTLSConfigManager(certFile, keyFile): the default config delegates every
\* ClientHello to getCurrentConfig; there is no current config yet
NewTLSConfigManager ==
    [certs |-> ServerCerts,
     defaultConfig |-> [baseTLSConfig(ServerCerts) EXCEPT !.GetConfigForClient = TRUE],
     currentConfig |-> <<>>,
     allocs |-> 0]

NoCall == [signed |-> TruncatedBody, jwks |-> "garbage", at |-> 0,
           returned |-> FALSE, result |-> [ok |-> FALSE, md |-> EmptyMetadata]]

\* A CertPool, with the snapshot pointer it was built from
NoPool == [certs |-> {}, from |-> Nil]

NoResult == [body |-> TruncatedBody, err |-> FALSE]

\* The requests a client sends on one connection
Requests == 1 .. MaxRequests

\* What LookupClient returns: entity id, organization, organization id and
\* error (err says whether it is non-nil, errorText is its Error() text)
NoLookup == [EntityID |-> "", Organization |-> NilString,
             OrganizationID |-> NilString, err |-> FALSE, errorText |-> <<>>]

\* A client certificate: the SPKI fingerprint of its leaf, the CA that issued it
NoPeer == [fp |-> "", issuer |-> ""]

\* errorString := "Unauthorized"
Unauthorized == <<"Unauthorized">>

\* No connection yet.  auth is the *AuthStatus of ContextConnection: <<>> is
\* nil.  Per request: its position in the handler, what its LookupClient call
\* returned, its errorString, the AuthStatus fields it answered the request
\* from, and what it answered or passed on.
NoConn ==
    [open |-> FALSE, peer |-> NoPeer, auth |-> <<>>,
     pc |-> [r \in Requests |-> "idle"],
     found |-> [r \in Requests |-> NoLookup],
     errorString |-> [r \in Requests |-> Unauthorized],
     entityID |-> [r \in Requests |-> ""],
     organization |-> [r \in Requests |-> NilString],
     served |-> [r \in Requests |-> <<>>],
     reply |-> [r \in Requests |-> <<>>],
     lookups |-> 0]

\* The entity ids a request's context can carry
EntityIDs == {"", "e1", "e2"}

\* A request at the Limiter middleware: where its handler stands, the entity id
\* and the deadline of its context, the limiter getLimiter returned to it (0 is
\* none, n the n-th limiter made for the entity), its reservation, and what
\* became of it
NoWait ==
    [pc |-> "idle", entity |-> "", deadline |-> Nil, limiter |-> 0, timeToAct |-> 0,
     tokens |-> 0, status |-> "", reached |-> FALSE]

\* No Limiter middleware in the chain (EnableLimiting is false).  arrivals
\* counts the requests that have reached the Limiter's handler, made the
\* calls of rate.NewLimiter per entity, and forwarded, per entity and instant,
\* the calls of its inner handler
NoLimiter ==
    [enabled |-> FALSE, limit |-> 1, burst |-> 0, beTimeout |-> 0,
     limiters |-> [e \in EntityIDs |-> <<>>],
     made |-> [e \in EntityIDs |-> 0],
     req |-> [r \in Requests |-> NoWait],
     arrivals |-> 0,
     forwarded |-> [e \in EntityIDs |-> [t \in 0 .. MaxTime |-> 0]]]

\* The files the process can find when it starts: <<JWKS file, cache file,
\* modification time of the cache file>>
StartFiles ==
    {<<"keys", Absent, 0>>, <<"keys", 1, 0>>, <<"keys", 1, 1>>, <<"keys", 2, 0>>,
     <<"keys", 3, 0>>, <<"keys", TruncatedBody, 0>>, <<"keys", Unreadable, 0>>,
     <<"garbage", 1, 0>>, <<"missing", Absent, 0>>}

Init ==
    /\ now = 0
    /\ \E s \in StartFiles :
          /\ jwksFile = s[1]
          /\ cacheFile = s[2]
          /\ cacheMTime = s[3]
    /\ snapshots = <<>>
    /\ parsed = 0
    /\ fetcherPc = "start"
    /\ listeners = <<>>
    /\ notifyIdx = 0
    /\ retry = [armed |-> FALSE, at |-> 0, delay |-> 0]
    /\ fetchResult = NoResult
    /\ fetchPc = [i \in Fetches |-> "unborn"]
    /\ fetchRes = [i \in Fetches |-> NoResult]
    /\ bodyOpen = [i \in Fetches |-> FALSE]
    /\ mainPc = "addListener"
    /\ mainPool = NoPool
    /\ bridgePc = "unborn"
    /\ bridgePool = NoPool
    /\ auxPc = "idle"
    /\ mgr = NewTLSConfigManager
    /\ hello = [n |-> 0, cfg |-> NewTLSConfigManager.defaultConfig]
    /\ history = [outcome |-> "none", wrote |-> "none",
                  notified |-> [l \in Subscribers |-> <<>>],
                  regAt |-> [l \in Subscribers |-> Nil],
                  accepted |-> 0, rebuilt |-> 0]
    /\ call = NoCall
    /\ conn = NoConn
    /\ lim = NoLimiter
    /\ mu = "free"

storeVars == <<jwksFile, cacheFile, cacheMTime, snapshots, parsed, fetcherPc,
               listeners, notifyIdx, retry, fetchResult>>
fetchVars == <<fetchPc, fetchRes, bodyOpen>>
tlsVars == <<mainPool, bridgePool, mgr, hello>>

\* ------------------------------------------------------------ the clock
Tick ==
    /\ now < MaxTime
    /\ fetcherPc # "fatal"
    /\ now' = now + 1
    /\ UNCHANGED <<mu, storeVars, fetchVars, tlsVars, mainPc, bridgePc, auxPc, history, call, conn,
                   lim>>

\* ------------------------------------------------------- metadataFetcher
\* fileModTimeOrNow(path) evaluated at time t
fileModTimeOrNow(file, mtime, t) == IF file \in Bodies THEN mtime ELSE t

\* The effective TTL of a snapshot:
\* cacheTTL(time.Duration(parsed.CacheTTL)*time.Second, options.DefaultCacheTTL)
EffectiveTTL(md) == cacheTTL(SecondsToDuration(md.CacheTTL), DefaultCacheTTL)

\* Not the code: a task that goes on while its lock is still held
setNewParsedKeepsLock(m) == TRUE

\* setNewParsed has returned to the task: its deferred Unlock has run
setNewParsedReturned(m) == m = "free"

\* getParsed's mdstore.lock.Lock() returns: nobody holds the lock.  getParsed
\* does nothing but read the pointer before its Unlock, so a reader's Lock,
\* read and Unlock are one step
Lock == mu = "free"

\* The start of metadataFetcher up to its event loop: read the JWKS file and
\* the cache file (log.Fatalf ends the process), verify the cache, publish it
\* (notifyAll finds no listener yet) and arm the first fetch.  The
\* step ends inside setNewParsed when the cache verifies, with the lock held
StartUp ==
    /\ fetcherPc = "start"
    /\ Lock
    /\ IF jwksFile = "missing" \/ cacheFile = Unreadable
       THEN /\ fetcherPc' = "fatal"
            /\ UNCHANGED <<snapshots, parsed, retry, mu>>
       ELSE LET v == IF cacheFile = Absent
                     THEN [ok |-> FALSE, md |-> EmptyMetadata]
                     ELSE Verify(cacheFile, jwksFile, now)
            IN /\ fetcherPc' = "loop"
               /\ IF v.ok
                  THEN /\ snapshots' = Append(snapshots, v.md)
                       /\ parsed' = Len(snapshots) + 1
                       /\ mu' = "task"
                       /\ retry' = After(durationToRefresh(
                                       fileModTimeOrNow(cacheFile, cacheMTime, now),
                                       EffectiveTTL(v.md), now), now)
                  ELSE /\ retry' = After(0, now)
                       /\ UNCHANGED <<snapshots, parsed, mu>>
    /\ UNCHANGED <<call, conn, lim, now, jwksFile, cacheFile, cacheMTime, listeners, notifyIdx,
                   fetchResult, fetchVars, tlsVars, mainPc, bridgePc, auxPc, history>>

\* Not the code: a loop that takes the stop request only when no fetch is
\* outstanding
RecvQuitAfterFetches ==
    /\ fetcherPc = "loop"
    /\ setNewParsedReturned(mu)
    /\ mainPc = "quitSend"
    /\ \A i \in Fetches : fetchPc[i] \in {"unborn", "close", "done"}
    /\ fetcherPc' = "ack"
    /\ mainPc' = "quitRecv"
    /\ UNCHANGED <<mu, call, conn, lim, now, jwksFile, cacheFile, cacheMTime, snapshots, parsed, listeners,
                   notifyIdx, retry, fetchResult, fetchVars, tlsVars, bridgePc, auxPc,
                   history>>

\* case <-mdstore.quit: the loop takes the stop request
RecvQuit ==
    /\ fetcherPc = "loop"
    /\ setNewParsedReturned(mu)
    /\ mainPc = "quitSend"
    /\ fetcherPc' = "ack"
    /\ mainPc' = "quitRecv"
    /\ UNCHANGED <<mu, call, conn, lim, now, jwksFile, cacheFile, cacheMTime, snapshots, parsed, listeners,
                   notifyIdx, retry, fetchResult, fetchVars, tlsVars, bridgePc, auxPc,
                   history>>

\* Not the code: a task that answers the stop request and goes on looping
SendQuitAckKeepsLooping ==
    /\ fetcherPc = "ack"
    /\ mainPc = "quitRecv"
    /\ fetcherPc' = "loop"
    /\ mainPc' = "done"
    /\ UNCHANGED <<mu, call, conn, lim, now, jwksFile, cacheFile, cacheMTime, snapshots, parsed, listeners,
                   notifyIdx, retry, fetchResult, fetchVars, tlsVars, bridgePc, auxPc,
                   history>>

\* mdstore.quit <- 0; return  (and Quit's <-mdstore.quit)
SendQuitAck ==
    /\ fetcherPc = "ack"
    /\ mainPc = "quitRecv"
    /\ fetcherPc' = "stopped"
    /\ mainPc' = "done"
    /\ UNCHANGED <<mu, call, conn, lim, now, jwksFile, cacheFile, cacheMTime, snapshots, parsed, listeners,
                   notifyIdx, retry, fetchResult, fetchVars, tlsVars, bridgePc, auxPc,
                   history>>

\* Not the code: a registration accepted before the event loop is entered
RecvAddListenerBeforeLoop(l) ==
    /\ fetcherPc \in {"start", "loop"}
    /\ setNewParsedReturned(mu)
    /\ IF l = "bridge"
       THEN mainPc = "addListener" /\ mainPc' = "updateTrust" /\ auxPc' = auxPc
       ELSE auxPc = "idle" /\ auxPc' = "listening" /\ mainPc' = mainPc
    /\ listeners' = Append(listeners, l)
    /\ history' = [history EXCEPT !.regAt[l] = Len(snapshots)]
    /\ UNCHANGED <<mu, call, conn, lim, now, jwksFile, cacheFile, cacheMTime, snapshots, parsed, fetcherPc,
                   notifyIdx, retry, fetchResult, fetchVars, tlsVars, bridgePc>>

\* Not the code: a registration accepted while notifyAll is in progress
RecvAddListenerAnyTime(l) ==
    /\ fetcherPc \in {"loop", "notify"}
    /\ setNewParsedReturned(mu)
    /\ IF l = "bridge"
       THEN mainPc = "addListener" /\ mainPc' = "updateTrust" /\ auxPc' = auxPc
       ELSE auxPc = "idle" /\ auxPc' = "listening" /\ mainPc' = mainPc
    /\ listeners' = Append(listeners, l)
    /\ history' = [history EXCEPT !.regAt[l] = Len(snapshots)]
    /\ UNCHANGED <<mu, call, conn, lim, now, jwksFile, cacheFile, cacheMTime, snapshots, parsed, fetcherPc,
                   notifyIdx, retry, fetchResult, fetchVars, tlsVars, bridgePc>>

\* case newListener := <-mdstore.addListener, with the AddChangeListener
\* call it completes: the bridge's constructor or the second subscriber
RecvAddListener(l) ==
    /\ fetcherPc = "loop"
    /\ setNewParsedReturned(mu)
    /\ IF l = "bridge"
       THEN mainPc = "addListener" /\ mainPc' = "updateTrust" /\ auxPc' = auxPc
       ELSE auxPc = "idle" /\ auxPc' = "listening" /\ mainPc' = mainPc
    /\ listeners' = Append(listeners, l)
    /\ history' = [history EXCEPT !.regAt[l] = Len(snapshots)]
    /\ UNCHANGED <<mu, call, conn, lim, now, jwksFile, cacheFile, cacheMTime, snapshots, parsed, fetcherPc,
                   notifyIdx, retry, fetchResult, fetchVars, tlsVars, bridgePc>>

\* Not the code: the two retry delays exchanged
HandleFetchResultSwapsRetries(res) ==
    IF res.err
    THEN /\ retry' = After(BadContentRetry, now)
         /\ history' = [history EXCEPT !.outcome = "networkError"]
         /\ UNCHANGED <<snapshots, parsed, fetcherPc, notifyIdx, fetchResult>>
    ELSE LET v == Verify(res.body, jwksFile, now)
         IN IF ~v.ok
            THEN /\ retry' = After(NetworkRetry, now)
                 /\ history' = [history EXCEPT !.outcome = "badContent"]
                 /\ UNCHANGED <<snapshots, parsed, fetcherPc, notifyIdx, fetchResult>>
            ELSE /\ snapshots' = Append(snapshots, v.md)
                 /\ parsed' = Len(snapshots) + 1
                 /\ fetcherPc' = "notify"
                 /\ notifyIdx' = 1
                 /\ fetchResult' = res
                 /\ history' = [history EXCEPT !.outcome = "verified", !.wrote = "none"]
                 /\ UNCHANGED retry

\* Not the code: a loop that publishes whatever verify returned
HandleFetchResultPublishesUnchecked(res) ==
    IF res.err
    THEN /\ retry' = After(NetworkRetry, now)
         /\ history' = [history EXCEPT !.outcome = "networkError"]
         /\ UNCHANGED <<snapshots, parsed, fetcherPc, notifyIdx, fetchResult>>
    ELSE LET v == Verify(res.body, jwksFile, now)
         IN /\ snapshots' = IF v.ok THEN Append(snapshots, v.md) ELSE snapshots
            /\ parsed' = IF v.ok THEN Len(snapshots) + 1 ELSE Nil
            /\ fetcherPc' = "notify"
            /\ notifyIdx' = 1
            /\ fetchResult' = res
            /\ history' = [history EXCEPT !.outcome = "verified", !.wrote = "none"]
            /\ UNCHANGED retry

\* Not the code: a loop that does not re-arm the timer after a transport error
HandleFetchResultGivesUp(res) ==
    IF res.err
    THEN /\ history' = [history EXCEPT !.outcome = "networkError"]
         /\ UNCHANGED <<retry, snapshots, parsed, fetcherPc, notifyIdx, fetchResult>>
    ELSE LET v == Verify(res.body, jwksFile, now)
         IN IF ~v.ok
            THEN /\ retry' = After(BadContentRetry, now)
                 /\ history' = [history EXCEPT !.outcome = "badContent"]
                 /\ UNCHANGED <<snapshots, parsed, fetcherPc, notifyIdx, fetchResult>>
            ELSE /\ snapshots' = Append(snapshots, v.md)
                 /\ parsed' = Len(snapshots) + 1
                 /\ fetcherPc' = "notify"
                 /\ notifyIdx' = 1
                 /\ fetchResult' = res
                 /\ history' = [history EXCEPT !.outcome = "verified", !.wrote = "none"]
                 /\ UNCHANGED retry

\* What the loop does with a fetchResult it has received, up to notifyAll
HandleFetchResult(res) ==
    IF res.err
    THEN /\ retry' = After(NetworkRetry, now)
         /\ history' = [history EXCEPT !.outcome = "networkError"]
         /\ UNCHANGED <<snapshots, parsed, fetcherPc, notifyIdx, fetchResult>>
    ELSE LET v == Verify(res.body, jwksFile, now)
         IN IF ~v.ok
            THEN /\ retry' = After(BadContentRetry, now)
                 /\ history' = [history EXCEPT !.outcome = "badContent"]
                 /\ UNCHANGED <<snapshots, parsed, fetcherPc, notifyIdx, fetchResult>>
            ELSE /\ snapshots' = Append(snapshots, v.md)
                 /\ parsed' = Len(snapshots) + 1
                 /\ fetcherPc' = "notify"
                 /\ notifyIdx' = 1
                 /\ fetchResult' = res
                 /\ history' = [history EXCEPT !.outcome = "verified", !.wrote = "none"]
                 /\ UNCHANGED retry

\* case fetchResult := <-fetched, with the send of fetch goroutine i; when the
\* result verifies the step ends inside setNewParsed, with the lock held
RecvFetched(i) ==
    /\ fetcherPc = "loop"
    /\ setNewParsedReturned(mu)
    /\ fetchPc[i] = "send"
    /\ fetchPc' = [fetchPc EXCEPT ![i] = IF bodyOpen[i] THEN "close" ELSE "done"]
    /\ fetchRes' = [fetchRes EXCEPT ![i] = NoResult]
    /\ HandleFetchResult(fetchRes[i])
    /\ mu' = IF parsed' # parsed THEN "task" ELSE mu
    /\ UNCHANGED <<call, conn, lim, now, jwksFile, cacheFile, cacheMTime, listeners, bodyOpen,
                   tlsVars, mainPc, bridgePc, auxPc>>

\* notifyAll: listener <- 0 to the next listener, which must be receiving
NotifyListener ==
    /\ fetcherPc = "notify"
    /\ setNewParsedReturned(mu)
    /\ notifyIdx <= Len(listeners)
    /\ LET l == listeners[notifyIdx]
       IN /\ IF l = "bridge"
             THEN bridgePc = "wait" /\ bridgePc' = "build"
             ELSE auxPc = "listening" /\ bridgePc' = bridgePc
          /\ history' = [history EXCEPT
                            !.notified[l] = Append(@, parsed),
                            !.accepted = IF l = "bridge" THEN parsed ELSE @]
    /\ notifyIdx' = notifyIdx + 1
    /\ UNCHANGED <<mu, call, conn, lim, now, jwksFile, cacheFile, cacheMTime, snapshots, parsed, fetcherPc,
                   listeners, retry, fetchResult, fetchVars, tlsVars, mainPc, auxPc>>

\* Not the code: a write that reports success and leaves the file as it was
WriteFileKeepsOld(outcome, old, body) ==
    IF outcome = "truncated" THEN TruncatedBody ELSE old

\* os.WriteFile(cachedPath, body, 0600): the file afterwards.  A failed write
\* leaves the file as it was (it could not be opened) or truncated.
WriteFileResult(outcome, old, body) ==
    CASE outcome = "ok" -> body
      [] outcome = "failed" -> old
      [] OTHER -> TruncatedBody

\* Not the code: a loop that takes the publish back when the cache write fails
FinishPublishRevertsOnWriteError ==
    /\ fetcherPc = "notify"
    /\ setNewParsedReturned(mu)
    /\ notifyIdx > Len(listeners)
    /\ retry' = After(durationToRefresh(now, EffectiveTTL(Snapshot(parsed)), now), now)
    /\ \E outcome \in {"ok", "failed", "truncated"} :
          /\ cacheFile' = WriteFileResult(outcome, cacheFile, fetchResult.body)
          /\ history' = [history EXCEPT !.wrote = outcome]
          /\ parsed' = IF outcome = "ok" THEN parsed ELSE parsed - 1
    /\ fetcherPc' = "loop"
    /\ notifyIdx' = 0
    /\ fetchResult' = NoResult
    /\ UNCHANGED <<mu, call, conn, lim, now, jwksFile, cacheMTime, snapshots, listeners, fetchVars,
                   tlsVars, mainPc, bridgePc, auxPc>>

\* After notifyAll: re-arm the timer from the new snapshot's TTL, write the cache
FinishPublish ==
    /\ fetcherPc = "notify"
    /\ setNewParsedReturned(mu)
    /\ notifyIdx > Len(listeners)
    /\ retry' = After(durationToRefresh(now, EffectiveTTL(Snapshot(parsed)), now), now)
    /\ \E outcome \in {"ok", "failed", "truncated"} :
          /\ cacheFile' = WriteFileResult(outcome, cacheFile, fetchResult.body)
          /\ history' = [history EXCEPT !.wrote = outcome]
    /\ fetcherPc' = "loop"
    /\ notifyIdx' = 0
    /\ fetchResult' = NoResult
    /\ UNCHANGED <<mu, call, conn, lim, now, jwksFile, cacheMTime, snapshots, parsed, listeners, fetchVars,
                   tlsVars, mainPc, bridgePc, auxPc>>

\* The deferred mdstore.lock.Unlock() of setNewParsed
TaskUnlock ==
    /\ mu = "task"
    /\ mu' = "free"
    /\ UNCHANGED <<call, conn, lim, now, storeVars, fetchVars, tlsVars, mainPc, bridgePc,
                   auxPc, history>>

\* case <-retry: fetch(url, fetched) starts a fetch goroutine
RetryFires ==
    /\ fetcherPc = "loop"
    /\ setNewParsedReturned(mu)
    /\ retry.armed
    /\ now >= retry.at
    /\ \E i \in Fetches :
          /\ fetchPc[i] = "unborn"
          /\ \A j \in Fetches : j < i => fetchPc[j] # "unborn"
          /\ fetchPc' = [fetchPc EXCEPT ![i] = "get"]
    /\ retry' = Fired(retry)
    /\ UNCHANGED <<mu, call, conn, lim, now, jwksFile, cacheFile, cacheMTime, snapshots, parsed, fetcherPc,
                   listeners, notifyIdx, fetchResult, fetchRes, bodyOpen, tlsVars,
                   mainPc, bridgePc, auxPc, history>>

\* ------------------------------------------------------- fetch goroutine
\* http.Get fails: the goroutine goes to `fetched <- fetchResult{nil, err}`
HttpGetFails(i) ==
    /\ fetchPc[i] = "get"
    /\ fetchPc' = [fetchPc EXCEPT ![i] = "send"]
    /\ fetchRes' = [fetchRes EXCEPT ![i] = [body |-> TruncatedBody, err |-> TRUE]]
    /\ UNCHANGED <<mu, call, conn, lim, now, storeVars, bodyOpen, tlsVars, mainPc, bridgePc, auxPc, history>>

\* http.Get answers and io.ReadAll reads the body (or fails part-way): the
\* goroutine goes to `fetched <- fetchResult{body, err}` with the body open
HttpGetAnswers(i) ==
    /\ fetchPc[i] = "get"
    /\ fetchPc' = [fetchPc EXCEPT ![i] = "send"]
    /\ \E b \in Bodies, e \in BOOLEAN :
          /\ e => b = TruncatedBody
          /\ fetchRes' = [fetchRes EXCEPT ![i] = [body |-> b, err |-> e]]
    /\ bodyOpen' = [bodyOpen EXCEPT ![i] = TRUE]
    /\ UNCHANGED <<mu, call, conn, lim, now, storeVars, tlsVars, mainPc, bridgePc, auxPc, history>>

\* response.Body.Close(), after the result has been received
CloseBody(i) ==
    /\ fetchPc[i] = "close"
    /\ fetchPc' = [fetchPc EXCEPT ![i] = "done"]
    /\ bodyOpen' = [bodyOpen EXCEPT ![i] = FALSE]
    /\ UNCHANGED <<mu, call, conn, lim, now, storeVars, fetchRes, tlsVars, mainPc, bridgePc, auxPc, history>>

\* ------------------------------------------- TLS config manager and bridge
\* mdstore.getParsed(): the pointer read under the lock
getParsed == parsed

\* Not the code: a pool always built from the first snapshot published
BuiltPoolOfFirstSnapshot ==
    LET first == IF parsed = 0 THEN 0 ELSE 1
    IN [certs |-> buildCertPool(issuersPerEntity(Snapshot(first))), from |-> first]

\* The first half of updateTrust: buildCertPool(mdstore.GetIssuerCertificates())
BuiltPool ==
    [certs |-> buildCertPool(issuersPerEntity(Snapshot(getParsed))), from |-> getParsed]

\* Not the code: a SetTrusted that installs nothing
SetTrustedKeepsCurrent(m, pool) == m

\* Not the code: a SetTrusted that sets ClientCAs in the current config
SetTrustedInPlace(m, pool) ==
    IF m.currentConfig = <<>>
    THEN [m EXCEPT !.allocs = @ + 1,
                   !.currentConfig =
                       <<[baseTLSConfig(m.certs) EXCEPT !.ClientCAs = pool.certs,
                                                        !.from = pool.from,
                                                        !.addr = m.allocs + 1]>>]
    ELSE [m EXCEPT !.currentConfig =
             <<[m.currentConfig[1] EXCEPT !.ClientCAs = pool.certs, !.from = pool.from]>>]

\* mgr.SetTrusted(clientCAs): the manager afterwards. newConfig is a new
\* allocation (allocs counts them); it is filled in before the lock is taken
\* and published by the one assignment under the lock
SetTrusted(m, pool) ==
    [m EXCEPT !.allocs = @ + 1,
              !.currentConfig =
                  <<[baseTLSConfig(m.certs) EXCEPT !.ClientCAs = pool.certs,
                                                   !.from = pool.from,
                                                   !.addr = m.allocs + 1]>>]

\* mgr.Config(): what the listener is created with
Config(m) == m.defaultConfig

\* getCurrentConfig, the GetConfigForClient callback of the default config
getCurrentConfig(m) == m.currentConfig

\* The config crypto/tls answers a ClientHello with: the callback's, or the
\* listener's own config when the callback returns nil
ConfigForClient ==
    IF getCurrentConfig(mgr) = <<>> THEN Config(mgr) ELSE getCurrentConfig(mgr)[1]

\* NewMetadataTLSConfigManager after AddChangeListener has returned:
\* updateTrust reads the snapshot and builds the pool
MainBuildPool ==
    /\ mainPc = "updateTrust"
    /\ Lock
    /\ mainPool' = BuiltPool
    /\ mainPc' = "setTrusted"
    /\ UNCHANGED <<mu, call, conn, lim, now, storeVars, fetchVars, bridgePool, mgr, hello,
                   bridgePc, auxPc, history>>

\* ... installs it, starts the bridge goroutine and returns; the caller
\* then opens the listener
MainSetTrusted ==
    /\ mainPc = "setTrusted"
    /\ mgr' = SetTrusted(mgr, mainPool)
    /\ bridgePc' = "wait"
    /\ mainPc' = "serving"
    /\ UNCHANGED <<mu, call, conn, lim, now, storeVars, fetchVars, mainPool, bridgePool, hello, auxPc,
                   history>>

\* The bridge goroutine after <-metadataChange: updateTrust builds the pool
BridgeBuildPool ==
    /\ bridgePc = "build"
    /\ Lock
    /\ bridgePool' = BuiltPool
    /\ bridgePc' = "install"
    /\ UNCHANGED <<mu, call, conn, lim, now, storeVars, fetchVars, mainPool, mgr, hello, mainPc,
                   auxPc, history>>

\* ... and installs it, then waits for the next notification
BridgeSetTrusted ==
    /\ bridgePc = "install"
    /\ mgr' = SetTrusted(mgr, bridgePool)
    /\ bridgePc' = "wait"
    /\ history' = [history EXCEPT !.rebuilt = history.accepted]
    /\ UNCHANGED <<mu, call, conn, lim, now, storeVars, fetchVars, mainPool, bridgePool, hello, mainPc,
                   auxPc>>

\* A ClientHello on the listener: the config that answers it
ClientHello ==
    /\ mainPc = "serving"
    /\ hello' = [n |-> 1 - hello.n, cfg |-> ConfigForClient]
    /\ UNCHANGED <<mu, call, conn, lim, now, storeVars, fetchVars, mainPool, bridgePool, mgr,
                   mainPc, bridgePc, auxPc, history>>

\* The shutdown signal: the server is shut down and main calls Quit, whose
\* first statement is mdstore.quit <- 0
MainCallsQuit ==
    /\ mainPc = "serving"
    /\ mainPc' = "quitSend"
    /\ UNCHANGED <<mu, call, conn, lim, now, storeVars, fetchVars, tlsVars, bridgePc, auxPc, history>>

\* ------------------------------------------------------------------ spec
Next ==
    \/ Tick
    \/ StartUp
    \/ RecvQuit
    \/ SendQuitAck
    \/ \E l \in Subscribers : RecvAddListener(l)
    \/ \E i \in Fetches : RecvFetched(i)
    \/ TaskUnlock
    \/ NotifyListener
    \/ FinishPublish
    \/ RetryFires
    \/ \E i \in Fetches : HttpGetFails(i)
    \/ \E i \in Fetches : HttpGetAnswers(i)
    \/ \E i \in Fetches : CloseBody(i)
    \/ MainBuildPool
    \/ MainSetTrusted
    \/ BridgeBuildPool
    \/ BridgeSetTrusted
    \/ ClientHello
    \/ MainCallsQuit

Spec == Init /\ [][Next]_vars

\* The Go scheduler runs every goroutine that can take a step, and a select
\* whose case stays ready is eventually taken; the network and the shutdown
\* signal are under no such obligation.
Fairness ==
    /\ WF_vars(StartUp)
    /\ WF_vars(TaskUnlock)
    /\ WF_vars(RecvQuit)
    /\ WF_vars(SendQuitAck)
    /\ WF_vars(RecvAddListener("bridge"))
    /\ WF_vars(NotifyListener)
    /\ WF_vars(FinishPublish)
    /\ WF_vars(MainBuildPool)
    /\ WF_vars(MainSetTrusted)
    /\ WF_vars(BridgeBuildPool)
    /\ WF_vars(BridgeSetTrusted)

\* The store with the bridge as its only listener, as cmd/bowness runs it
NextBridgeOnly ==
    \/ Tick
    \/ StartUp
    \/ RecvQuit
    \/ SendQuitAck
    \/ RecvAddListener("bridge")
    \/ \E i \in Fetches : RecvFetched(i)
    \/ TaskUnlock
    \/ NotifyListener
    \/ FinishPublish
    \/ RetryFires
    \/ \E i \in Fetches : HttpGetFails(i)
    \/ \E i \in Fetches : HttpGetAnswers(i)
    \/ \E i \in Fetches : CloseBody(i)
    \/ MainBuildPool
    \/ MainSetTrusted
    \/ BridgeBuildPool
    \/ BridgeSetTrusted
    \/ MainCallsQuit

FairSpec == Init /\ [][NextBridgeOnly]_vars /\ Fairness

\* --------------------------------------------- Quit at any moment of the task
\* A caller that stops the store right after NewMetadataStore has returned,
\* without registering a listener: Quit's first statement, mdstore.quit <- 0,
\* while the task may still be reading its files
QuitAfterConstruction ==
    /\ mainPc = "addListener"
    /\ mainPc' = "quitSend"
    /\ UNCHANGED <<mu, call, conn, lim, now, storeVars, fetchVars, tlsVars, bridgePc, auxPc, history>>

NextQuit ==
    \/ NextBridgeOnly
    \/ QuitAfterConstruction

QuitSpec == Init /\ [][NextQuit]_vars /\ Fairness

\* ------------------------------------------------ the store left running
\* Beyond the last instant the clock of the model counts, time still passes:
\* a timer that is armed for later comes due
ClockBeyondHorizon ==
    /\ now = MaxTime
    /\ fetcherPc # "fatal"
    /\ retry.armed
    /\ retry.at > now
    /\ retry' = [retry EXCEPT !.at = now]
    /\ UNCHANGED <<mu, call, conn, lim, now, jwksFile, cacheFile, cacheMTime, snapshots, parsed,
                   fetcherPc, listeners, notifyIdx, fetchResult, fetchVars, tlsVars,
                   mainPc, bridgePc, auxPc, history>>

\* The fetch goroutine has returned; another one can be started in its place
FetchExits(i) ==
    /\ fetchPc[i] = "done"
    /\ fetchPc' = [fetchPc EXCEPT ![i] = "unborn"]
    /\ UNCHANGED <<mu, call, conn, lim, now, storeVars, fetchRes, bodyOpen, tlsVars, mainPc,
                   bridgePc, auxPc, history>>

\* A body that verify rejects at every time
NeverVerifies(body, jwks) == \A t \in 0 .. MaxTime : ~Verify(body, jwks, t).ok

\* http.Get answers, from a server that has only MaxFetches documents that
\* verify to give out and answers with bad content after them
HttpGetAnswersFinitely(i) ==
    /\ HttpGetAnswers(i)
    /\ Len(snapshots) >= MaxFetches
          => fetchRes'[i].err \/ NeverVerifies(fetchRes'[i].body, jwksFile)

InitRetry ==
    /\ Init
    /\ <<jwksFile, cacheFile, cacheMTime>>
          \in {<<"keys", Absent, 0>>, <<"keys", 2, 0>>, <<"garbage", 1, 0>>}

NextRetry ==
    \/ Tick
    \/ ClockBeyondHorizon
    \/ StartUp
    \/ \E i \in Fetches : RecvFetched(i)
    \/ TaskUnlock
    \/ FinishPublish
    \/ RetryFires
    \/ \E i \in Fetches : HttpGetFails(i)
    \/ \E i \in Fetches : HttpGetAnswersFinitely(i)
    \/ \E i \in Fetches : CloseBody(i)
    \/ \E i \in Fetches : FetchExits(i)

\* Every goroutine that can take a step takes it, time passes, and every
\* fetch that was started returns
RetryFairness ==
    /\ WF_vars(Tick)
    /\ WF_vars(ClockBeyondHorizon)
    /\ WF_vars(StartUp)
    /\ WF_vars(TaskUnlock)
    /\ WF_vars(FinishPublish)
    /\ WF_vars(RetryFires)
    /\ \A i \in Fetches :
          /\ WF_vars(HttpGetFails(i) \/ HttpGetAnswersFinitely(i))
          /\ WF_vars(RecvFetched(i))
          /\ WF_vars(CloseBody(i))
          /\ WF_vars(FetchExits(i))

RetrySpec == InitRetry /\ [][NextRetry]_vars /\ RetryFairness

\* ------------------------------------------------------------- Limiter
\* The rate.Limit values of the model, in events per second
Limits == {1, 2}

\* The bursts of the model
Bursts == 0 .. MaxBurst

\* One token, counted in parts of 1/Second, so that a limiter of limit l gains
\* l parts in one unit of time
Token == Second

\* The zero time.Time, long before the process started
ZeroTime == -100

\* rate.NewLimiter(r, b): no tokens, last and lastEvent at the zero time
NewLimiter == [tokens |-> 0, last |-> ZeroTime, lastEvent |-> ZeroTime]

Smaller(a, b) == IF a <= b THEN a ELSE b

\* Not the code: a getLimiter that makes a new limiter for every request
getLimiterAlwaysNew(l, entity) ==
    [l |-> [l EXCEPT !.limiters[entity] = <<NewLimiter>>, !.made[entity] = @ + 1],
     limiter |-> l.made[entity] + 1]

\* Not the code: a getLimiter without the lock, as two first requests of an
\* entity can run it: the second misses the limiter the first has just stored
getLimiterWithoutLock(l, entity) ==
    IF l.limiters[entity] # <<>> /\ l.limiters[entity] # <<NewLimiter>>
    THEN [l |-> l, limiter |-> l.made[entity]]
    ELSE [l |-> [l EXCEPT !.limiters[entity] = <<NewLimiter>>, !.made[entity] = @ + 1],
          limiter |-> l.made[entity] + 1]

\* l.getLimiter(entity), under the lock: the limiter of the map, made on first
\* use.  The Limiter afterwards and the limiter returned
getLimiter(l, entity) ==
    IF l.limiters[entity] # <<>>
    THEN [l |-> l, limiter |-> l.made[entity]]
    ELSE [l |-> [l EXCEPT !.limiters[entity] = <<NewLimiter>>, !.made[entity] = @ + 1],
          limiter |-> l.made[entity] + 1]

\* Limit.durationFromTokens and Limit.tokensFromDuration
durationFromTokens(limit, tokens) == tokens \div limit
tokensFromDuration(limit, d) == d * limit

\* Limiter.advance(t): the tokens of limiter lm at time t, at most the burst
advance(lm, limit, burst, t) ==
    Smaller(burst * Token,
            lm.tokens + tokensFromDuration(limit, t - Smaller(lm.last, t)))

\* Limiter.reserveN(t, 1, maxFutureReserve) on limiter lm; maxFutureReserve is
\* Nil for InfDuration.  The reservation and the limiter after it
reserveN(lm, limit, burst, t, maxFutureReserve) ==
    LET tokens == advance(lm, limit, burst, t) - Token
        waitDuration == IF tokens < 0 THEN durationFromTokens(limit, -tokens) ELSE 0
        ok == /\ 1 <= burst
              /\ maxFutureReserve # Nil => waitDuration <= maxFutureReserve
    IN [ok |-> ok,
        timeToAct |-> IF ok THEN t + waitDuration ELSE 0,
        tokens |-> IF ok THEN 1 ELSE 0,
        lm |-> IF ok
               THEN [tokens |-> tokens, last |-> t, lastEvent |-> t + waitDuration]
               ELSE lm]

\* Reservation.CancelAt(t) of a reservation of one token for timeToAct: the
\* limiter gets back the token, less what was reserved after it
CancelAt(lm, limit, burst, timeToAct, t) ==
    LET restoreTokens == Token - tokensFromDuration(limit, lm.lastEvent - timeToAct)
        prevEvent == timeToAct + durationFromTokens(limit, -Token)
    IN IF timeToAct < t \/ restoreTokens <= 0
       THEN lm
       ELSE [tokens |-> Smaller(burst * Token,
                                advance(lm, limit, burst, t) + restoreTokens),
             last |-> t,
             lastEvent |-> IF timeToAct = lm.lastEvent /\ prevEvent >= t
                           THEN prevEvent
                           ELSE lm.lastEvent]

\* What the Limiter's handler leaves of request r when it returns: the status
\* it wrote, or the call of its inner handler
Answered429(l, r) ==
    [l EXCEPT !.req[r] = [NoWait EXCEPT !.pc = "done", !.entity = l.req[r].entity,
                                        !.status = "429"]]

InnerHandler(l, r, tokens, t) ==
    [l EXCEPT !.req[r] = [NoWait EXCEPT !.pc = "done", !.entity = l.req[r].entity,
                                        !.tokens = tokens, !.reached = TRUE],
              !.forwarded[l.req[r].entity][t] = @ + 1]

\* The values of BackendTimeout in the model: none, and one second
BackendTimeouts == {0, Second}

\* The context of a request that reaches the Limiter at time t: main wraps the
\* Limiter in http.TimeoutHandler when BackendTimeout is a second or more, and
\* the context then has a deadline
Deadline(beTimeout, t) == IF beTimeout >= Second THEN t + beTimeout ELSE Nil

\* server.Limiter(proxyHandler, r, b) in main: the middleware, with an empty
\* map, under the TimeoutHandler if there is one
Limiter(r, b) ==
    /\ ~lim.enabled
    /\ conn = NoConn
    /\ \E beTimeout \in BackendTimeouts :
          lim' = [NoLimiter EXCEPT !.enabled = TRUE, !.limit = r, !.burst = b,
                                  !.beTimeout = beTimeout]
    /\ UNCHANGED <<mu, call, conn, now, storeVars, fetchVars, tlsVars, mainPc, bridgePc,
                   auxPc, history>>

\* A request whose context carries entity id e reaches the Limiter's handler,
\* which calls getLimiter
LimiterServes(r) ==
    /\ lim.enabled
    /\ lim.req[r].pc = "idle"
    /\ lim.arrivals < MaxArrivals
    /\ \E e \in {"e1", "e2"} :
          LET got == getLimiter(lim, e)
          IN lim' = [got.l EXCEPT !.arrivals = @ + 1,
                                  !.req[r] = [NoWait EXCEPT
                                                 !.pc = "wait",
                                                 !.entity = e,
                                                 !.limiter = got.limiter,
                                                 !.deadline = Deadline(lim.beTimeout, now)]]
    /\ UNCHANGED <<mu, call, conn, now, storeVars, fetchVars, tlsVars, mainPc, bridgePc,
                   auxPc, history>>

\* limiter := getLimiter(EntityIDFromContext(r.Context()))
LimiterGetsLimiter(r) ==
    /\ lim.req[r].pc = "getLimiter"
    /\ LET got == getLimiter(lim, lim.req[r].entity)
       IN lim' = [got.l EXCEPT !.req[r].pc = "wait", !.req[r].limiter = got.limiter]
    /\ UNCHANGED <<mu, call, conn, now, storeVars, fetchVars, tlsVars, mainPc, bridgePc,
                   auxPc, history>>

\* limiter.Wait(r.Context()) up to its timer: an error when the burst is less
\* than one, when the context is done already and when the reservation would
\* pass the deadline; nil at once when the reservation has no delay
LimiterWait(r) ==
    /\ lim.req[r].pc = "wait"
    /\ LET q == lim.req[r]
           lm == lim.limiters[q.entity][1]
           waitLimit == IF q.deadline = Nil THEN Nil ELSE q.deadline - now
           res == reserveN(lm, lim.limit, lim.burst, now, waitLimit)
       IN IF 1 > lim.burst \/ (q.deadline # Nil /\ q.deadline <= now)
          THEN lim' = Answered429(lim, r)
          ELSE IF ~res.ok
          THEN lim' = Answered429(lim, r)
          ELSE LET reserved == [lim EXCEPT !.limiters[q.entity] = <<res.lm>>]
               IN IF res.timeToAct = now
                  THEN lim' = InnerHandler(reserved, r, res.tokens, now)
                  ELSE lim' = [reserved EXCEPT !.req[r].pc = "timer",
                                               !.req[r].timeToAct = res.timeToAct,
                                               !.req[r].tokens = res.tokens]
    /\ UNCHANGED <<mu, call, conn, now, storeVars, fetchVars, tlsVars, mainPc, bridgePc,
                   auxPc, history>>

\* case <-ch of Wait: the timer of the reservation fires, Wait returns nil and
\* the handler calls h.ServeHTTP
LimiterTimerFires(r) ==
    /\ lim.req[r].pc = "timer"
    /\ now >= lim.req[r].timeToAct
    /\ lim' = InnerHandler(lim, r, lim.req[r].tokens, now)
    /\ UNCHANGED <<mu, call, conn, now, storeVars, fetchVars, tlsVars, mainPc, bridgePc,
                   auxPc, history>>

\* case <-ctx.Done() of Wait, the client having gone or the deadline having
\* come: the reservation is cancelled, Wait returns ctx.Err() and the handler
\* writes 429
LimiterWaitCancelled(r) ==
    /\ lim.req[r].pc = "timer"
    /\ LET q == lim.req[r]
       IN lim' = Answered429(
                    [lim EXCEPT !.limiters[q.entity] =
                        <<CancelAt(lim.limiters[q.entity][1], lim.limit, lim.burst,
                                   q.timeToAct, now)>>], r)
    /\ UNCHANGED <<mu, call, conn, now, storeVars, fetchVars, tlsVars, mainPc, bridgePc,
                   auxPc, history>>

\* The handler has returned; the client sends its next request
LimiterReturns(r) ==
    /\ lim.req[r].pc = "done"
    /\ lim' = [lim EXCEPT !.req[r] = NoWait]
    /\ UNCHANGED <<mu, call, conn, now, storeVars, fetchVars, tlsVars, mainPc, bridgePc,
                   auxPc, history>>

\* Time passes, and no timer that is due is passed over
LimiterTick ==
    /\ \A r \in Requests : lim.req[r].pc = "timer" => lim.req[r].timeToAct > now
    /\ Tick

\* The Limiter middleware under requests of two entities, with every limit
\* and burst of the model
NextLimiter ==
    \/ \E r \in Limits, b \in Bursts : Limiter(r, b)
    \/ LimiterTick
    \/ \E r \in Requests : LimiterServes(r)
    \/ \E r \in Requests : LimiterWait(r)
    \/ \E r \in Requests : LimiterTimerFires(r)
    \/ \E r \in Requests : LimiterWaitCancelled(r)
    \/ \E r \in Requests : LimiterReturns(r)

InitLimiter ==
    /\ Init
    /\ jwksFile = "keys"
    /\ cacheFile = Absent
    /\ cacheMTime = 0

LimiterSpec == InitLimiter /\ [][NextLimiter]_vars

\* ------------------------------------------- authentication middleware
\* The client certificates of the model: two pinned ones, one that a trusted
\* CA issued but no entity pins, and one with the key that e1 pins in a
\* certificate of the CA that e2 lists
Peers ==
    {[fp |-> "fpA", issuer |-> "CA1"], [fp |-> "fpB", issuer |-> "CA2"],
     [fp |-> "fpX", issuer |-> "CA1"], [fp |-> "fpA", issuer |-> "CA2"]}

\* util.Fingerprint of the leaf certificate a peer can present
PeerFingerprints == {p.fp : p \in Peers}

\* crypto/tls under config cfg: with RequireAndVerifyClientCert the client's
\* chain must lead to a certificate of cfg.ClientCAs
HandshakeSucceeds(cfg, peer) ==
    cfg.ClientAuth = "RequireAndVerifyClientCert" => peer.issuer \in cfg.ClientCAs

\* The entities of a snapshot with a client pin whose digest is the fingerprint
Matching(md, fingerprint) ==
    {i \in 1 .. Len(md.Entities) :
        \E c \in 1 .. Len(md.Entities[i].Clients) :
            \E k \in 1 .. Len(md.Entities[i].Clients[c].Pins) :
                md.Entities[i].Clients[c].Pins[k].Digest = fingerprint}

\* fmt.Errorf("failed to find client pin (%s) in metadata", fingerprint)
PinNotFound(fingerprint) == <<"failed to find client pin", fingerprint, "in metadata">>

\* Not the code: a lookup that returns the last matching entity
LookupClientLastMatch(md, fingerprint) ==
    IF Matching(md, fingerprint) = {}
    THEN [EntityID |-> "", Organization |-> NilString,
          OrganizationID |-> NilString, err |-> TRUE,
          errorText |-> PinNotFound(fingerprint)]
    ELSE LET i == CHOOSE m \in Matching(md, fingerprint) :
                      \A o \in Matching(md, fingerprint) : m >= o
         IN [EntityID |-> md.Entities[i].EntityID,
             Organization |-> md.Entities[i].Organization,
             OrganizationID |-> md.Entities[i].OrganizationID,
             err |-> FALSE, errorText |-> <<>>]

\* MetadataStore.LookupClient on snapshot md: the first matching entity in
\* document order, or an error
LookupClient(md, fingerprint) ==
    IF Matching(md, fingerprint) = {}
    THEN [EntityID |-> "", Organization |-> NilString,
          OrganizationID |-> NilString, err |-> TRUE,
          errorText |-> PinNotFound(fingerprint)]
    ELSE LET i == CHOOSE m \in Matching(md, fingerprint) :
                      \A o \in Matching(md, fingerprint) : m <= o
         IN [EntityID |-> md.Entities[i].EntityID,
             Organization |-> md.Entities[i].Organization,
             OrganizationID |-> md.Entities[i].OrganizationID,
             err |-> FALSE, errorText |-> <<>>]

\* &AuthStatus{Granted: err == nil, EntityID: ..., ...}
AuthStatus(found) ==
    [Granted |-> ~found.err, EntityID |-> found.EntityID,
     Organization |-> found.Organization, OrganizationID |-> found.OrganizationID]

\* The header names of the middleware
entityIDHeader == "X-FedTLSAuth-Entity-ID"
organizationHeader == "X-FedTLSAuth-Organization"
organizationIDHeader == "X-FedTLSAuth-Organization-ID"

\* textproto.CanonicalMIMEHeaderKey: the key net/http stores a header under,
\* for the spellings the model's clients and the middleware use
CanonicalMIMEHeaderKey(name) ==
    CASE name \in {"X-FedTLSAuth-Entity-ID", "x-fedtlsauth-entity-id",
                   "X-FEDTLSAUTH-ENTITY-ID"} -> "X-Fedtlsauth-Entity-Id"
      [] name \in {"X-FedTLSAuth-Organization", "x-fedtlsauth-organization"}
            -> "X-Fedtlsauth-Organization"
      [] name \in {"X-FedTLSAuth-Organization-ID", "x-fedtlsauth-organization-id"}
            -> "X-Fedtlsauth-Organization-Id"
      [] OTHER -> name

\* The keys of an http.Header of the model
HeaderKeys ==
    {"X-Fedtlsauth-Entity-Id", "X-Fedtlsauth-Organization",
     "X-Fedtlsauth-Organization-Id", "Accept"}

\* An http.Header without entries
NoHeader == [k \in HeaderKeys |-> <<>>]

\* The header lines a client can send with a request
InboundHeaders ==
    {<<>>,
     <<[name |-> "Accept", value |-> "text/plain"],
       [name |-> "x-fedtlsauth-entity-id", value |-> "e1"],
       [name |-> "X-FedTLSAuth-Organization", value |-> "Org One"],
       [name |-> "x-fedtlsauth-organization-id", value |-> "1234"]>>,
     <<[name |-> "X-FedTLSAuth-Entity-ID", value |-> "e1"],
       [name |-> "X-FEDTLSAUTH-ENTITY-ID", value |-> "e2"]>>}

\* Header.Add, as the server's request reader applies it line by line
RECURSIVE ReadHeader(_)
ReadHeader(lines) ==
    IF lines = <<>>
    THEN NoHeader
    ELSE LET n == Len(lines)
             h == ReadHeader(SubSeq(lines, 1, n - 1))
         IN [h EXCEPT ![CanonicalMIMEHeaderKey(lines[n].name)] =
                          Append(@, lines[n].value)]

\* Header.Set and Header.Del
Set(h, name, value) == [h EXCEPT ![CanonicalMIMEHeaderKey(name)] = <<value>>]
Del(h, name) == [h EXCEPT ![CanonicalMIMEHeaderKey(name)] = <<>>]

\* setOrClear(h, headerName, value)
setOrClear(h, headerName, value) ==
    IF value # NilString THEN Set(h, headerName, value[1]) ELSE Del(h, headerName)

\* The header of r2: the request's, with the identity the handler has read
\* from connection.auth written over it
ForwardedHeader(inbound, auth) ==
    setOrClear(
        setOrClear(Set(ReadHeader(inbound), entityIDHeader, auth.EntityID),
                   organizationHeader, auth.Organization),
        organizationIDHeader, auth.OrganizationID)

\* ContextModifier's callback: the server has accepted a connection whose
\* handshake succeeded, and attaches a fresh ContextConnection to it
ContextModifier ==
    /\ mainPc = "serving"
    /\ ~conn.open
    /\ \E p \in Peers :
          /\ HandshakeSucceeds(ConfigForClient, p)
          /\ conn' = [conn EXCEPT !.open = TRUE, !.peer = p]
    /\ UNCHANGED <<mu, call, lim, now, storeVars, fetchVars, tlsVars, mainPc, bridgePc, auxPc,
                   history>>

\* The handler of request r reads connection.auth and compares it with nil
RequestChecksAuth(r) ==
    /\ conn.open
    /\ conn.pc[r] = "idle"
    /\ conn' = [conn EXCEPT !.pc[r] = IF conn.auth = <<>> THEN "lookup" ELSE "granted"]
    /\ UNCHANGED <<mu, call, lim, now, storeVars, fetchVars, tlsVars, mainPc, bridgePc, auxPc,
                   history>>

\* ... calls mdstore.LookupClient, which reads the current snapshot
RequestLooksUp(r) ==
    /\ conn.pc[r] = "lookup"
    /\ Lock
    /\ conn' = [conn EXCEPT !.pc[r] = "store",
                            !.found[r] = LookupClient(Snapshot(getParsed), conn.peer.fp),
                            !.lookups = @ + 1]
    /\ UNCHANGED <<mu, call, lim, now, storeVars, fetchVars, tlsVars, mainPc, bridgePc, auxPc,
                   history>>

\* ... assigns connection.auth = &AuthStatus{...}, and errorString = err.Error()
\* when the lookup failed
RequestStoresAuth(r) ==
    /\ conn.pc[r] = "store"
    /\ conn' = [conn EXCEPT !.pc[r] = "granted",
                            !.auth = <<AuthStatus(conn.found[r])>>,
                            !.errorString[r] = IF conn.found[r].err
                                               THEN conn.found[r].errorText
                                               ELSE @,
                            !.found[r] = NoLookup]
    /\ UNCHANGED <<mu, call, lim, now, storeVars, fetchVars, tlsVars, mainPc, bridgePc, auxPc,
                   history>>

\* ... reads connection.auth.Granted: http.Error(w, errorString, 403) when it
\* is false
RequestChecksGranted(r) ==
    /\ conn.pc[r] = "granted"
    /\ conn' = IF conn.auth[1].Granted
               THEN [conn EXCEPT !.pc[r] = "entityID"]
               ELSE [conn EXCEPT !.pc[r] = "done",
                                 !.served[r] = <<[Granted |-> FALSE, EntityID |-> "",
                                                  Organization |-> NilString,
                                                  OrganizationID |-> NilString]>>,
                                 !.reply[r] = <<[status |-> "403",
                                                 body |-> conn.errorString[r],
                                                 header |-> NoHeader]>>,
                                 !.errorString[r] = Unauthorized]
    /\ UNCHANGED <<mu, call, lim, now, storeVars, fetchVars, tlsVars, mainPc, bridgePc, auxPc,
                   history>>

\* ... entityID := connection.auth.EntityID
RequestReadsEntityID(r) ==
    /\ conn.pc[r] = "entityID"
    /\ conn' = [conn EXCEPT !.pc[r] = "organization",
                            !.entityID[r] = conn.auth[1].EntityID]
    /\ UNCHANGED <<mu, call, lim, now, storeVars, fetchVars, tlsVars, mainPc, bridgePc, auxPc,
                   history>>

\* ... organization := connection.auth.Organization
RequestReadsOrganization(r) ==
    /\ conn.pc[r] = "organization"
    /\ conn' = [conn EXCEPT !.pc[r] = "forward",
                            !.organization[r] = conn.auth[1].Organization]
    /\ UNCHANGED <<mu, call, lim, now, storeVars, fetchVars, tlsVars, mainPc, bridgePc, auxPc,
                   history>>

\* The handler that main wraps in AuthMiddleware, called for request r with
\* entity id e in its context at time t: the Limiter's handler (under the
\* TimeoutHandler if there is one) when limiting is enabled, the reverse
\* proxy to the backend when it is not
ProxyHandler(l, r, e, t) ==
    IF l.enabled
    THEN [l EXCEPT !.req[r] = [NoWait EXCEPT !.pc = "getLimiter",
                                             !.entity = e,
                                             !.deadline = Deadline(l.beTimeout, t)]]
    ELSE [l EXCEPT !.req[r] = [NoWait EXCEPT !.pc = "done", !.entity = e,
                                             !.reached = TRUE]]

\* ... organizationID := connection.auth.OrganizationID, sets the headers of
\* the clone r2 from the three values it has read and calls the wrapped handler
RequestForwards(r) ==
    /\ conn.pc[r] = "forward"
    /\ \E inbound \in InboundHeaders :
          LET identity == [Granted |-> TRUE,
                           EntityID |-> conn.entityID[r],
                           Organization |-> conn.organization[r],
                           OrganizationID |-> conn.auth[1].OrganizationID]
          IN conn' = [conn EXCEPT
                         !.pc[r] = "done",
                         !.served[r] = <<identity>>,
                         !.reply[r] = <<[status |-> "forwarded", body |-> <<>>,
                                         header |-> ForwardedHeader(inbound, identity)]>>,
                         !.entityID[r] = "",
                         !.organization[r] = NilString,
                         !.errorString[r] = Unauthorized]
    /\ lim' = ProxyHandler(lim, r, conn.entityID[r], now)
    /\ UNCHANGED <<mu, call, now, storeVars, fetchVars, tlsVars, mainPc, bridgePc, auxPc,
                   history>>

\* A server that serves one connection while the store refreshes
InitConn ==
    /\ Init
    /\ jwksFile = "keys"
    /\ cacheFile \in {1, 2}
    /\ cacheMTime = 0

NextConn ==
    \/ Tick
    \/ StartUp
    \/ RecvAddListener("bridge")
    \/ \E i \in Fetches : RecvFetched(i)
    \/ TaskUnlock
    \/ NotifyListener
    \/ FinishPublish
    \/ RetryFires
    \/ \E i \in Fetches : HttpGetFails(i)
    \/ \E i \in Fetches : HttpGetAnswers(i)
    \/ \E i \in Fetches : CloseBody(i)
    \/ MainBuildPool
    \/ MainSetTrusted
    \/ BridgeBuildPool
    \/ BridgeSetTrusted
    \/ ContextModifier
    \/ \E r \in Requests : RequestChecksAuth(r)
    \/ \E r \in Requests : RequestLooksUp(r)
    \/ \E r \in Requests : RequestStoresAuth(r)
    \/ \E r \in Requests : RequestChecksGranted(r)
    \/ \E r \in Requests : RequestReadsEntityID(r)
    \/ \E r \in Requests : RequestReadsOrganization(r)
    \/ \E r \in Requests : RequestForwards(r)

ConnSpec == InitConn /\ [][NextConn]_vars

\* The chain of main: AuthMiddleware, then the Limiter when EnableLimiting is
\* set, then the reverse proxy, on one connection while the store refreshes
NextChain ==
    \/ \E b \in {0, 1} : Limiter(1, b)
    \/ LimiterTick
    \/ StartUp
    \/ RecvAddListener("bridge")
    \/ \E i \in Fetches : RecvFetched(i)
    \/ TaskUnlock
    \/ NotifyListener
    \/ FinishPublish
    \/ RetryFires
    \/ \E i \in Fetches : HttpGetFails(i)
    \/ \E i \in Fetches : HttpGetAnswers(i)
    \/ \E i \in Fetches : CloseBody(i)
    \/ MainBuildPool
    \/ MainSetTrusted
    \/ BridgeBuildPool
    \/ BridgeSetTrusted
    \/ ContextModifier
    \/ \E r \in Requests : RequestChecksAuth(r)
    \/ \E r \in Requests : RequestLooksUp(r)
    \/ \E r \in Requests : RequestStoresAuth(r)
    \/ \E r \in Requests : RequestChecksGranted(r)
    \/ \E r \in Requests : RequestReadsEntityID(r)
    \/ \E r \in Requests : RequestReadsOrganization(r)
    \/ \E r \in Requests : RequestForwards(r)
    \/ \E r \in Requests : LimiterGetsLimiter(r)
    \/ \E r \in Requests : LimiterWait(r)
    \/ \E r \in Requests : LimiterTimerFires(r)
    \/ \E r \in Requests : LimiterWaitCancelled(r)

ChainSpec == InitConn /\ [][NextChain]_vars

\* ------------------------------------------------------- JSON decoding
\* A JSON text, as encoding/json scans it: a value has a type t, an object has
\* its members in the order of the text (a key can occur twice)
JString(s) == [t |-> "string", s |-> s]
JNumber(n) == [t |-> "number", n |-> n]
JBool(b) == [t |-> "bool", b |-> b]
JNull == [t |-> "null"]
JArray(items) == [t |-> "array", items |-> items]
JObject(members) == [t |-> "object", members |-> members]
Member(k, v) == [k |-> k, v |-> v]

\* The keys of struct fields match case-insensitively (strings.EqualFold);
\* the lower-case form of the spellings of the model
ToLower(key) ==
    CASE key \in {"Organization", "ORGANIZATION"} -> "organization"
      [] key = "Organization_ID" -> "organization_id"
      [] key = "Entity_ID" -> "entity_id"
      [] OTHER -> key

\* The values that the members of an object bind to struct field `field`, in
\* the order of the text; every other member is skipped
Bound(v, field) ==
    IF v.t # "object"
    THEN <<>>
    ELSE LET Names(m) == ToLower(m.k) = field
             ms == SelectSeq(v.members, Names)
         IN [i \in 1 .. Len(ms) |-> ms[i].v]

\* The values of the members of an object with exactly the key `key`, as a map
\* is indexed
Keyed(v, key) ==
    LET Has(m) == m.k = key
        ms == SelectSeq(v.members, Has)
    IN [i \in 1 .. Len(ms) |-> ms[i].v]

\* Decoding the values vs one after another into a string that holds old: a
\* string is stored, null leaves the string alone, any other type is an
\* UnmarshalTypeError
RECURSIVE UnmarshalString(_, _)
UnmarshalString(vs, old) ==
    IF vs = <<>>
    THEN [ok |-> TRUE, val |-> old]
    ELSE LET v == Head(vs)
             rest == UnmarshalString(Tail(vs),
                                     IF v.t = "string" THEN v.s ELSE old)
         IN [ok |-> rest.ok /\ v.t \in {"string", "null"}, val |-> rest.val]

\* Not the code: a decoder that takes the empty string for no value
RECURSIVE UnmarshalStringPtrOmitEmpty(_, _)
UnmarshalStringPtrOmitEmpty(vs, old) ==
    IF vs = <<>>
    THEN [ok |-> TRUE, val |-> old]
    ELSE LET v == Head(vs)
             rest == UnmarshalStringPtrOmitEmpty(
                         Tail(vs),
                         IF v.t = "string" /\ v.s # "" THEN <<v.s>>
                         ELSE IF v.t \in {"null", "string"} THEN NilString
                         ELSE old)
         IN [ok |-> rest.ok /\ v.t \in {"string", "null"}, val |-> rest.val]

\* ... into a *string that holds old: a string is stored behind a new
\* pointer, null sets the pointer to nil
RECURSIVE UnmarshalStringPtr(_, _)
UnmarshalStringPtr(vs, old) ==
    IF vs = <<>>
    THEN [ok |-> TRUE, val |-> old]
    ELSE LET v == Head(vs)
             rest == UnmarshalStringPtr(Tail(vs),
                                        IF v.t = "string" THEN <<v.s>>
                                        ELSE IF v.t = "null" THEN NilString
                                        ELSE old)
         IN [ok |-> rest.ok /\ v.t \in {"string", "null"}, val |-> rest.val]

\* ... into an int that holds old
RECURSIVE UnmarshalInt(_, _)
UnmarshalInt(vs, old) ==
    IF vs = <<>>
    THEN [ok |-> TRUE, val |-> old]
    ELSE LET v == Head(vs)
             rest == UnmarshalInt(Tail(vs), IF v.t = "number" THEN v.n ELSE old)
         IN [ok |-> rest.ok /\ v.t \in {"number", "null"}, val |-> rest.val]

\* Not the code: a pin decoder that knows the attributes alg and digest only
UnmarshalPinCanonicalOnly(v) ==
    IF v.t \notin {"object", "null"}
    THEN [ok |-> FALSE, val |-> Pin("", "")]
    ELSE LET m == IF v.t = "null" THEN JObject(<<>>) ELSE v
             Last(key) == LET vs == Keyed(m, key)
                          IN IF vs[Len(vs)].t = "string" THEN vs[Len(vs)].s ELSE ""
         IN IF \E i \in DOMAIN m.members : m.members[i].v.t \notin {"string", "null"}
            THEN [ok |-> FALSE, val |-> Pin("", "")]
            ELSE IF Keyed(m, "alg") = <<>> \/ Keyed(m, "digest") = <<>>
            THEN [ok |-> FALSE, val |-> Pin("", "")]
            ELSE [ok |-> TRUE, val |-> Pin(Last("alg"), Last("digest"))]

\* Pin.UnmarshalJSON: json.Unmarshal(b, &m) into a map[string]string fails
\* unless b is an object (or null, which leaves the map empty) whose member
\* values are all strings or null (null is stored as ""); the last member of
\* a key is the one the map holds.  Then alg or else name, digest or else value
UnmarshalPin(v) ==
    IF v.t \notin {"object", "null"}
    THEN [ok |-> FALSE, val |-> Pin("", "")]
    ELSE LET m == IF v.t = "null" THEN JObject(<<>>) ELSE v
             Last(key) == LET vs == Keyed(m, key)
                          IN IF vs[Len(vs)].t = "string" THEN vs[Len(vs)].s ELSE ""
             alg == IF Keyed(m, "alg") # <<>> THEN "alg" ELSE "name"
             digest == IF Keyed(m, "digest") # <<>> THEN "digest" ELSE "value"
         IN IF \E i \in DOMAIN m.members : m.members[i].v.t \notin {"string", "null"}
            THEN [ok |-> FALSE, val |-> Pin("", "")]
            ELSE IF Keyed(m, alg) = <<>> \/ Keyed(m, digest) = <<>>
            THEN [ok |-> FALSE, val |-> Pin("", "")]
            ELSE [ok |-> TRUE, val |-> Pin(Last(alg), Last(digest))]

\* json.Marshal of a Pin: the struct tags name the members
MarshalPin(p) ==
    JObject(<<Member("alg", JString(p.Alg)), Member("digest", JString(p.Digest))>>)

\* Decoding the values vs one after another into a []Pin: an array replaces
\* the slice by its decoded elements, null by nil
UnmarshalPins(vs) ==
    IF vs = <<>>
    THEN [ok |-> TRUE, val |-> <<>>]
    ELSE LET v == vs[Len(vs)]
             items == IF v.t = "array" THEN v.items ELSE <<>>
         IN [ok |-> /\ \A i \in DOMAIN vs : vs[i].t \in {"array", "null"}
                    /\ \A i \in DOMAIN vs :
                          vs[i].t = "array" =>
                              \A j \in DOMAIN vs[i].items :
                                  UnmarshalPin(vs[i].items[j]).ok,
             val |-> [j \in DOMAIN items |-> UnmarshalPin(items[j]).val]]

\* Decoding a value into a Client (its description is not used by the program)
UnmarshalClient(v) ==
    LET pins == UnmarshalPins(Bound(v, "pins"))
        description == UnmarshalStringPtr(Bound(v, "description"), NilString)
    IN [ok |-> v.t \in {"object", "null"} /\ pins.ok /\ description.ok,
        val |-> Client(pins.val)]

\* Decoding a value into an Issuer: its x509certificate
UnmarshalIssuer(v) ==
    LET cert == UnmarshalString(Bound(v, "x509certificate"), "")
    IN [ok |-> v.t \in {"object", "null"} /\ cert.ok, val |-> cert.val]

\* Decoding the values vs into a []Client and into a []Issuer
UnmarshalClients(vs) ==
    IF vs = <<>>
    THEN [ok |-> TRUE, val |-> <<>>]
    ELSE LET v == vs[Len(vs)]
             items == IF v.t = "array" THEN v.items ELSE <<>>
         IN [ok |-> /\ \A i \in DOMAIN vs : vs[i].t \in {"array", "null"}
                    /\ \A i \in DOMAIN vs :
                          vs[i].t = "array" =>
                              \A j \in DOMAIN vs[i].items :
                                  UnmarshalClient(vs[i].items[j]).ok,
             val |-> [j \in DOMAIN items |-> UnmarshalClient(items[j]).val]]

UnmarshalIssuers(vs) ==
    IF vs = <<>>
    THEN [ok |-> TRUE, val |-> <<>>]
    ELSE LET v == vs[Len(vs)]
             items == IF v.t = "array" THEN v.items ELSE <<>>
         IN [ok |-> /\ \A i \in DOMAIN vs : vs[i].t \in {"array", "null"}
                    /\ \A i \in DOMAIN vs :
                          vs[i].t = "array" =>
                              \A j \in DOMAIN vs[i].items :
                                  UnmarshalIssuer(vs[i].items[j]).ok,
             val |-> [j \in DOMAIN items |-> UnmarshalIssuer(items[j]).val]]

\* json.Unmarshal into an Entity: absent fields keep their zero value
UnmarshalEntity(v) ==
    LET issuers == UnmarshalIssuers(Bound(v, "issuers"))
        clients == UnmarshalClients(Bound(v, "clients"))
        entityID == UnmarshalString(Bound(v, "entity_id"), "")
        organization == UnmarshalStringPtr(Bound(v, "organization"), NilString)
        organizationID == UnmarshalStringPtr(Bound(v, "organization_id"), NilString)
    IN [ok |-> /\ v.t \in {"object", "null"}
               /\ issuers.ok /\ clients.ok /\ entityID.ok
               /\ organization.ok /\ organizationID.ok,
        val |-> [EntityID |-> entityID.val, Issuers |-> issuers.val,
                 Clients |-> clients.val, Organization |-> organization.val,
                 OrganizationID |-> organizationID.val]]

UnmarshalEntities(vs) ==
    IF vs = <<>>
    THEN [ok |-> TRUE, val |-> <<>>]
    ELSE LET v == vs[Len(vs)]
             items == IF v.t = "array" THEN v.items ELSE <<>>
         IN [ok |-> /\ \A i \in DOMAIN vs : vs[i].t \in {"array", "null"}
                    /\ \A i \in DOMAIN vs :
                          vs[i].t = "array" =>
                              \A j \in DOMAIN vs[i].items :
                                  UnmarshalEntity(vs[i].items[j]).ok,
             val |-> [j \in DOMAIN items |-> UnmarshalEntity(items[j]).val]]

\* json.Unmarshal(payload, &result) of verify, on the JSON text of a payload:
\* (nil, err) when any value has a type its field cannot take
UnmarshalMetadata(v) ==
    LET ttl == UnmarshalInt(Bound(v, "cache_ttl"), 0)
        entities == UnmarshalEntities(Bound(v, "entities"))
    IN IF v.t \in {"object", "null"} /\ ttl.ok /\ entities.ok
       THEN [ok |-> TRUE, md |-> [CacheTTL |-> ttl.val, Entities |-> entities.val]]
       ELSE [ok |-> FALSE, md |-> EmptyMetadata]

\* ---------------------------------------------- decoding as a function
\* The strings of the JSON texts of the model
TextStrings == {"", "sha256", "fpA"}

\* The members a pin object of the model is made of: the four attributes with
\* every string, an attribute with null, a key in another case and an
\* attribute the decoder does not know
PinMembers ==
    {Member(k, JString(s)) : k \in {"alg", "name", "digest", "value"}, s \in TextStrings}
        \cup {Member("alg", JNull), Member("Alg", JString("sha256")),
              Member("comment", JString("sha256"))}

\* The texts Pin.UnmarshalJSON is applied to: objects of up to MaxMembers
\* members in any order, repeats included, and values that are no object
PinTexts ==
    {JObject(ms) : ms \in UNION {[1 .. n -> PinMembers] : n \in 0 .. MaxMembers}}
        \cup {JNull, JString("sha256"), JArray(<<>>)}

\* The Pin values that are encoded and decoded again
PinValues == {Pin(a, d) : a \in TextStrings, d \in TextStrings}

\* The ways a text of the model spells an optional string field of an entity:
\* not at all, null, the empty string, a string, twice, in another case, and
\* with a value that is no string
FieldTexts(key, otherCase) ==
    {<<>>,
     <<Member(key, JNull)>>,
     <<Member(key, JString(""))>>,
     <<Member(key, JString("Org One"))>>,
     <<Member(key, JString("Org One")), Member(key, JNull)>>,
     <<Member(key, JNull), Member(key, JString("1234"))>>,
     <<Member(otherCase, JString("Org One"))>>,
     <<Member(key, JNumber(5))>>}

\* The entity texts of the model: the minimal entity of the tests, with every
\* spelling of organization and of organization_id
EntityTexts ==
    {JObject(<<Member("entity_id", JString("example.com")),
               Member("issuers", JArray(<<>>))>> \o org \o orgID) :
        org \in FieldTexts("organization", "Organization"),
        orgID \in FieldTexts("organization_id", "Organization_ID")}

\* The values of a member that no struct of the program has
UnknownValues ==
    {JString("x"), JNumber(7), JBool(TRUE), JNull, JArray(<<JNumber(1)>>),
     JObject(<<Member("alg", JString("q"))>>)}

\* The levels of a metadata document
Levels == {"top", "entity", "issuer", "client", "pin"}

\* A metadata text with one entity, one issuer, one client and one pin, and
\* the members extra added to the object of one level
MetadataText(level, extra) ==
    LET At(l) == IF l = level THEN extra ELSE <<>>
        pin == JObject(<<Member("alg", JString("sha256")),
                         Member("digest", JString("fpA"))>> \o At("pin"))
        client == JObject(<<Member("pins", JArray(<<pin>>))>> \o At("client"))
        issuer == JObject(<<Member("x509certificate", JString("CA1"))>> \o At("issuer"))
        entity == JObject(<<Member("entity_id", JString("e1")),
                            Member("issuers", JArray(<<issuer>>)),
                            Member("clients", JArray(<<client>>)),
                            Member("organization", JString("Org One"))>>
                          \o At("entity"))
    IN JObject(<<Member("cache_ttl", JNumber(1)),
                 Member("entities", JArray(<<entity>>))>> \o At("top"))

InitDecode ==
    /\ Init
    /\ jwksFile = "keys"
    /\ cacheFile = Absent

\* json.Unmarshal of a pin text
CallUnmarshalPin ==
    /\ ~call.returned
    /\ \E text \in PinTexts :
          call' = [op |-> "pin", text |-> text, returned |-> TRUE,
                   result |-> UnmarshalPin(text)]
    /\ UNCHANGED <<mu, conn, lim, now, storeVars, fetchVars, tlsVars, mainPc, bridgePc, auxPc, history>>

\* json.Marshal of a Pin and json.Unmarshal of the outcome
CallMarshalPin ==
    /\ ~call.returned
    /\ \E p \in PinValues :
          call' = [op |-> "marshal", pin |-> p, text |-> MarshalPin(p),
                   returned |-> TRUE, result |-> UnmarshalPin(MarshalPin(p))]
    /\ UNCHANGED <<mu, conn, lim, now, storeVars, fetchVars, tlsVars, mainPc, bridgePc, auxPc, history>>

\* json.Unmarshal of an entity text
CallUnmarshalEntity ==
    /\ ~call.returned
    /\ \E text \in EntityTexts :
          call' = [op |-> "entity", text |-> text, returned |-> TRUE,
                   result |-> UnmarshalEntity(text)]
    /\ UNCHANGED <<mu, conn, lim, now, storeVars, fetchVars, tlsVars, mainPc, bridgePc, auxPc, history>>

\* json.Unmarshal of a metadata text with a member that no struct has, and
\* of the same text without it
CallUnmarshalMetadata ==
    /\ ~call.returned
    /\ \E level \in Levels, v \in UnknownValues, key \in {"comment", "x-extension"} :
          call' = [op |-> "metadata", level |-> level, unknown |-> v,
                   text |-> MetadataText(level, <<Member(key, v)>>),
                   returned |-> TRUE,
                   result |-> UnmarshalMetadata(
                                  MetadataText(level, <<Member(key, v)>>)),
                   plain |-> UnmarshalMetadata(MetadataText(level, <<>>))]
    /\ UNCHANGED <<mu, conn, lim, now, storeVars, fetchVars, tlsVars, mainPc, bridgePc, auxPc, history>>

NextDecode ==
    \/ CallUnmarshalPin
    \/ CallMarshalPin
    \/ CallUnmarshalEntity
    \/ CallUnmarshalMetadata

DecodeSpec == InitDecode /\ [][NextDecode]_vars

\* ------------------------------------------------ readers of the snapshot
\* The background task is blocked in notifyAll, on a listener that is not
\* receiving
TaskBlocked ==
    /\ fetcherPc = "notify"
    /\ notifyIdx <= Len(listeners)
    /\ bridgePc # "wait"

\* A request handler calls mdstore.LookupClient, or a caller
\* mdstore.GetIssuerCertificates
ReaderCalls ==
    /\ call = NoCall
    /\ \E op \in {"LookupClient", "GetIssuerCertificates"} :
          call' = [op |-> op, returned |-> FALSE, result |-> <<>>]
    /\ UNCHANGED <<mu, conn, lim, now, storeVars, fetchVars, tlsVars, mainPc, bridgePc, auxPc, history>>

\* Its getParsed gets the lock, reads the pointer and unlocks; the call
\* returns what it finds in that snapshot
ReaderGetsParsed ==
    /\ call # NoCall
    /\ ~call.returned
    /\ Lock
    /\ call' = [call EXCEPT
                   !.returned = TRUE,
                   !.result = IF call.op = "LookupClient"
                              THEN <<LookupClient(Snapshot(getParsed), "fpA")>>
                              ELSE <<issuersPerEntity(Snapshot(getParsed))>>]
    /\ UNCHANGED <<mu, conn, lim, now, storeVars, fetchVars, tlsVars, mainPc, bridgePc, auxPc, history>>

\* The caller is done with the result; another call can follow
ReaderReturns ==
    /\ call # NoCall
    /\ call.returned
    /\ call' = NoCall
    /\ UNCHANGED <<mu, conn, lim, now, storeVars, fetchVars, tlsVars, mainPc, bridgePc, auxPc, history>>

\* The store and the bridge as cmd/bowness runs them, with a reader
NextReaders ==
    \/ NextBridgeOnly
    \/ ReaderCalls
    \/ ReaderGetsParsed
    \/ ReaderReturns

\* A goroutine that can take its step takes it: who holds the lock unlocks,
\* a reader that can lock reads.  Nothing is asked of the task otherwise, of
\* its listeners, of the network or of the disk
ReadersFairness ==
    /\ WF_vars(TaskUnlock)
    /\ WF_vars(ReaderGetsParsed)

InitReaders ==
    /\ Init
    /\ <<jwksFile, cacheFile, cacheMTime>> = <<"keys", Absent, 0>>

ReadersSpec == InitReaders /\ [][NextReaders]_vars /\ ReadersFairness

\* ----------------------------------------- refresh schedule as a function
\* The values of cache_ttl a document can carry: the int of the model's width
CacheTTLs == -(DurationModulus \div 2) .. (DurationModulus \div 2) - 1

\* The times of a last fetch: a moment of the run, or one after it
LastFetches == 0 .. MaxTime + 1

InitSchedule ==
    /\ Init
    /\ jwksFile = "keys"
    /\ cacheFile = Absent

\* The loop computes the delay to the next fetch for a snapshot with this
\* cache_ttl: durationToRefresh(lastFetch, cacheTTL(time.Duration(CacheTTL) *
\* time.Second, options.DefaultCacheTTL))
CallDurationToRefresh ==
    /\ ~call.returned
    /\ \E c \in CacheTTLs, last \in LastFetches :
          LET md == [CacheTTL |-> c, Entities |-> <<>>]
          IN call' = [op |-> "schedule", CacheTTL |-> c, lastFetch |-> last,
                      at |-> now, returned |-> TRUE,
                      ttl |-> EffectiveTTL(md),
                      result |-> durationToRefresh(last, EffectiveTTL(md), now)]
    /\ UNCHANGED <<mu, conn, lim, now, storeVars, fetchVars, tlsVars, mainPc, bridgePc, auxPc, history>>

NextSchedule ==
    \/ Tick
    \/ CallDurationToRefresh

ScheduleSpec == InitSchedule /\ [][NextSchedule]_vars

\* --------------------------------------------- updateTrust as a function
\* Issuer lists of an entity: none, one certificate, a certificate next to a
\* text that is no PEM, in both orders, and no certificate at all
IssuerLists ==
    {<<>>, <<"CA1">>, <<"CA2", "notPEM">>, <<"notPEM", "CA3">>, <<"notPEM">>}

\* The entities updateTrust meets; two entities may carry the same entity id
TrustEntities ==
    {[EntityID |-> id, Issuers |-> is, Clients |-> <<>>,
      Organization |-> NilString, OrganizationID |-> NilString] :
        id \in {"e1", "e2"}, is \in IssuerLists}

\* The snapshots updateTrust is applied to: up to MaxEntities entities
TrustSnapshots ==
    {[CacheTTL |-> 0, Entities |-> es] :
        es \in UNION {[1 .. n -> TrustEntities] : n \in 0 .. MaxEntities}}

InitTrust ==
    /\ Init
    /\ jwksFile = "keys"
    /\ cacheFile = Absent

\* updateTrust with md as the published snapshot:
\* buildCertPool(mdstore.GetIssuerCertificates()), handed to SetTrusted
CallUpdateTrust ==
    /\ ~call.returned
    /\ \E md \in TrustSnapshots :
          call' = [op |-> "updateTrust", md |-> md, returned |-> TRUE,
                   issuers |-> issuersPerEntity(md),
                   result |-> SetTrusted(NewTLSConfigManager,
                                 [certs |-> buildCertPool(issuersPerEntity(md)),
                                  from |-> Nil])]
    /\ UNCHANGED <<mu, conn, lim, now, storeVars, fetchVars, tlsVars, mainPc, bridgePc, auxPc, history>>

NextTrust ==
    \/ Tick
    \/ CallUpdateTrust

TrustSpec == InitTrust /\ [][NextTrust]_vars

\* ------------------------------------------- LookupClient as a function
\* Two more entities: one with two clients and a legacy-named pin, one that
\* pins the same key as e1 and has an empty organization
EntityE3 ==
    [EntityID |-> "e3", Issuers |-> <<"CA1">>,
     Clients |-> <<Client(<<Pin("sha256", "fpC")>>),
                   Client(<<Pin("sha256", "fpD"), Pin("sha256", "fpB")>>)>>,
     Organization |-> NilString, OrganizationID |-> <<"5566">>]

EntityE4 ==
    [EntityID |-> "e4", Issuers |-> <<>>,
     Clients |-> <<Client(<<Pin("sha256", "fpA")>>)>>,
     Organization |-> <<"">>, OrganizationID |-> NilString]

\* The snapshots LookupClient is applied to: up to MaxEntities entities, in
\* any order, repeats included
LookupSnapshots ==
    {[CacheTTL |-> 0, Entities |-> es] :
        es \in UNION {[1 .. n -> {EntityE1, EntityE2, EntityE3, EntityE4}] :
                         n \in 0 .. MaxEntities}}

LookupFingerprints == {"fpA", "fpB", "fpC", "fpX"}

InitLookup ==
    /\ Init
    /\ jwksFile = "keys"
    /\ cacheFile = Absent

\* A caller applies LookupClient to a snapshot and a leaf fingerprint
CallLookupClient ==
    /\ ~call.returned
    /\ \E md \in LookupSnapshots, fp \in LookupFingerprints :
          call' = [md |-> md, fingerprint |-> fp, returned |-> TRUE,
                   result |-> LookupClient(md, fp)]
    /\ UNCHANGED <<mu, conn, lim, now, storeVars, fetchVars, tlsVars, mainPc, bridgePc, auxPc, history>>

NextLookup == CallLookupClient

LookupSpec == InitLookup /\ [][NextLookup]_vars

\* ------------------------------------------------- verify as a function
\* verify applied to every body and JWKS of the bounded sets, at every time
VerifyInputs == Bodies \X {"keys", "otherKeys", "garbage"}

InitVerify ==
    /\ Init
    /\ jwksFile = "keys"
    /\ cacheFile = Absent

\* The caller picks the arguments and verify returns
CallVerify ==
    /\ ~call.returned
    /\ \E in \in VerifyInputs :
          call' = [signed |-> in[1], jwks |-> in[2], at |-> now, returned |-> TRUE,
                   result |-> Verify(in[1], in[2], now)]
    /\ UNCHANGED <<mu, conn, lim, now, storeVars, fetchVars, tlsVars, mainPc, bridgePc, auxPc, history>>

NextVerify ==
    \/ Tick
    \/ CallVerify

VerifySpec == InitVerify /\ [][NextVerify]_vars

\* ================================================================ claims
Max(a, b) == IF a >= b THEN a ELSE b

\* The fetch goroutine whose result the loop receives in this step
Received(i) == fetchPc[i] = "send" /\ fetchPc'[i] # "send"

\* The listeners that have got the notification of snapshot p
NotifiedOf(l, p) == Len(SelectSeq(history.notified[l], LAMBDA x : x = p))

\* C1: a failed refresh never changes what is served.  When the loop receives
\* a fetch result that is a transport/read error, or whose body fails
\* verification or decoding, the step leaves the published snapshot and the
\* cache file as they are, notifies no listener (the loop goes straight back
\* to its select) and re-arms the timer with NetworkRetry (error) or
\* BadContentRetry (bad content), counted from now.
C1_FailedRefreshKeepsServing ==
    [][\A i \in Fetches :
          (Received(i) /\ (fetchRes[i].err \/ ~Verify(fetchRes[i].body, jwksFile, now).ok))
          => /\ parsed' = parsed
             /\ snapshots' = snapshots
             /\ cacheFile' = cacheFile
             /\ history'.notified = history.notified
             /\ fetcherPc' = "loop"
             /\ retry' = [armed |-> TRUE,
                          at |-> now + (IF fetchRes[i].err THEN NetworkRetry
                                        ELSE BadContentRetry),
                          delay |-> IF fetchRes[i].err THEN NetworkRetry
                                    ELSE BadContentRetry]]_vars

\* A bad body has been handled while a snapshot and a cache file were in place
C1_Witness ==
    /\ history.outcome = "badContent"
    /\ parsed # 0
    /\ cacheFile \in Bodies
    /\ retry.armed /\ retry.delay = BadContentRetry

\* C2: when a fetched body verifies, the loop first swaps in the new snapshot,
\* then sends one notification to every registered listener, then writes the
\* body byte-for-byte to the cache file, and re-arms the timer with the new
\* snapshot's effective TTL counted from now (at once when that TTL is not
\* positive); a failing cache write neither reverts the publish nor stops
\* the loop.
C2_PublishNotifyWrite ==
    [][/\ \A i \in Fetches :
            (Received(i) /\ ~fetchRes[i].err /\ Verify(fetchRes[i].body, jwksFile, now).ok)
            => /\ parsed' = Len(snapshots) + 1
               /\ snapshots'[parsed'] = Verify(fetchRes[i].body, jwksFile, now).md
               /\ fetcherPc' = "notify"
               /\ fetchResult'.body = fetchRes[i].body
               /\ cacheFile' = cacheFile
               /\ history'.notified = history.notified
       /\ (fetcherPc = "notify" /\ fetcherPc' = "notify")
            => parsed' = parsed /\ cacheFile' = cacheFile /\ retry' = retry
       /\ (fetcherPc = "notify" /\ notifyIdx' # notifyIdx /\ fetcherPc' = "notify")
            => /\ notifyIdx' = notifyIdx + 1
               /\ \E l \in Subscribers :
                     /\ l = listeners[notifyIdx]
                     /\ history'.notified[l] = Append(history.notified[l], parsed)
       /\ (fetcherPc = "notify" /\ fetcherPc' # "notify")
            => /\ \A k \in DOMAIN listeners : NotifiedOf(listeners[k], parsed) = 1
               /\ parsed' = parsed
               /\ fetcherPc' = "loop"
               /\ history'.wrote = "ok" => cacheFile' = fetchResult.body
               /\ retry' = [armed |-> TRUE,
                            at |-> now + Max(0, EffectiveTTL(snapshots[parsed])),
                            delay |-> Max(0, EffectiveTTL(snapshots[parsed]))]]_vars

\* A publish to two listeners whose cache write failed: still published, timer armed
C2_Witness ==
    /\ history.outcome = "verified"
    /\ history.wrote = "failed"
    /\ fetcherPc = "loop"
    /\ Len(listeners) = 2
    /\ parsed = Len(snapshots) /\ parsed # 0
    /\ retry.armed

\* The bytes verify is applied to in a step that publishes: the cache file at
\* start-up, the received body in the loop
VerifiedBody ==
    IF fetcherPc = "start" THEN cacheFile
    ELSE fetchRes[CHOOSE i \in Fetches : fetchPc[i] = "send" /\ fetchPc'[i] # "send"].body

SignatureVerifies(body, jwks) ==
    /\ JwksParse(jwks).ok
    /\ JWSDoc(body).parses
    /\ \E k \in DOMAIN JWSDoc(body).sigs : JWSDoc(body).sigs[k].key \in JwksParse(jwks).keys

\* C3 as claimed: every published snapshot other than the initial empty one
\* passed JWS verification against the configured JWK set and carried an `exp`
\* header strictly in the future when it was verified.
C3_ExpStrictlyInFuture ==
    [][parsed' # parsed
       => /\ SignatureVerifies(VerifiedBody, jwksFile)
          /\ JWSDoc(VerifiedBody).sigs[1].exp # NoExp
          /\ now < JWSDoc(VerifiedBody).sigs[1].exp * Second]_vars

\* C3 as amended: every published snapshot other than the initial empty one is
\* the decoded payload of a document that passed JWS verification against the
\* configured JWK set and whose `exp` header, when it has one, was not in the
\* past when it was verified (a document without `exp`, or with `exp` equal to
\* the current time, is published).
C3_VerifiedAndNotExpired ==
    [][parsed' # parsed
       => /\ SignatureVerifies(VerifiedBody, jwksFile)
          /\ \/ JWSDoc(VerifiedBody).sigs[1].exp = NoExp
             \/ now <= JWSDoc(VerifiedBody).sigs[1].exp * Second
          /\ JWSDoc(VerifiedBody).payload.wellFormed
          /\ parsed' = Len(snapshots')
          /\ snapshots'[parsed'] = DecodeMetadata(JWSDoc(VerifiedBody).payload).md]_vars

\* A snapshot is published that only documents 1 and 5 decode to: document 1
\* has no `exp`, document 5 verifies only when its `exp` equals the current time
C3_Witness ==
    /\ parsed # 0
    /\ Snapshot(parsed) = DecodeMetadata(JWSDoc(1).payload).md

\* C4: the published snapshot pointer is never nil, it always points to the
\* initial Metadata or to a verified one, and it has zero entities as long as
\* no load from cache or network has succeeded.
C4_SnapshotNeverNil ==
    /\ parsed # Nil
    /\ parsed \in 0 .. Len(snapshots)
    /\ Len(snapshots) = 0 => parsed = 0 /\ Snapshot(parsed).Entities = <<>>

\* The store has been stopped after refreshes that all failed, still on the empty snapshot
C4_Witness ==
    /\ fetcherPc = "stopped"
    /\ history.outcome \in {"badContent", "networkError"}
    /\ Len(snapshots) = 0
    /\ parsed = 0 /\ Snapshot(parsed).Entities = <<>>

C6_QuitDrainsInFlightFetch ==
    mainPc = "done" =>
        /\ fetcherPc = "stopped"
        /\ \A i \in Fetches : fetchPc[i] \in {"unborn", "close", "done"}

\* C7 as claimed: once the bridge has accepted the notification of snapshot S,
\* every later ClientHello is answered with a config built from S or newer.
C7_HelloAfterNotificationAccepted ==
    [][hello'.n # hello.n => hello'.cfg.from >= history.accepted]_vars

\* C7 as amended: once the bridge has finished the rebuild that the
\* notification of snapshot S triggered (its SetTrusted has returned), every
\* later ClientHello is answered with a config whose client-CA pool was built
\* from S or from a newer snapshot; between the acceptance of the notification
\* and that moment a ClientHello still gets the older config.
C7_HelloAfterRebuild ==
    [][hello'.n # hello.n
       => /\ hello'.cfg.from >= history.rebuilt
          /\ hello'.cfg.ClientCAs =
                buildCertPool(issuersPerEntity(Snapshot(hello'.cfg.from)))]_vars

\* A ClientHello answered from the second snapshot after the bridge rebuilt for it
C7_Witness ==
    /\ hello.n = 1
    /\ history.rebuilt = 2
    /\ hello.cfg.from = 2

\* C8: under fair scheduling, when the store publishes snapshot S and nothing
\* later, the manager's current config eventually carries the CA pool built
\* from S and keeps it; the default config the listener was created with is
\* never replaced.
C8_TrustEventuallyFollowsPublish ==
    /\ \A v \in 1 .. MaxFetches + 1 :
          <>[](parsed = v)
          => <>[](/\ getCurrentConfig(mgr) # <<>>
                  /\ getCurrentConfig(mgr)[1].from = v
                  /\ getCurrentConfig(mgr)[1].ClientCAs =
                        buildCertPool(issuersPerEntity(Snapshot(v))))
    /\ [](Config(mgr) = NewTLSConfigManager.defaultConfig)

\* The bridge has caught up with a snapshot published by a refresh and is idle
C8_Witness ==
    /\ parsed = 2
    /\ bridgePc = "wait"
    /\ fetcherPc = "loop"
    /\ getCurrentConfig(mgr) # <<>>
    /\ getCurrentConfig(mgr)[1].from = 2
    /\ Config(mgr) = NewTLSConfigManager.defaultConfig

\* The position of listener l in the listeners slice (0: not registered)
Position(l) ==
    IF \E k \in DOMAIN listeners : listeners[k] = l
    THEN CHOOSE k \in DOMAIN listeners : listeners[k] = l
    ELSE 0

\* The publishes from..to in order
Publishes(from, to) == [k \in 1 .. Max(0, to - from + 1) |-> from + k - 1]

\* C9: every registered listener has received exactly one notification for
\* each publish made after its registration, in the order of the publishes,
\* and nothing else (none for a failed refresh, none for a publish before its
\* registration); during the fan-out of a publish the listeners before the
\* loop's position have the newest notification and the others not yet, and a
\* listener is never registered in the middle of a fan-out.
C9_OneNotificationPerPublish ==
    \A l \in Subscribers :
        IF Position(l) = 0
        THEN history.notified[l] = <<>> /\ history.regAt[l] = Nil
        ELSE LET pending == fetcherPc = "notify" /\ Position(l) >= notifyIdx
                 upTo == IF pending THEN Len(snapshots) - 1 ELSE Len(snapshots)
             IN /\ history.regAt[l] # Nil
                /\ history.notified[l] = Publishes(history.regAt[l] + 1, upTo)

\* Two listeners registered at different times, each notified of the publishes since
C9_Witness ==
    /\ Len(listeners) = 2
    /\ Len(history.notified["bridge"]) = 2
    /\ Len(history.notified["aux"]) = 1
    /\ fetcherPc = "loop"

\* C10: for every connection the client lookup is performed at most once, and
\* the requests served on one connection, concurrent at the first computation
\* or not, with or without a publish between their lookups, all act on the
\* same AuthStatus (same granted flag, same identity)
C10_OneLookupOneAuthStatus ==
    /\ conn.lookups <= 1
    /\ \A r1, r2 \in Requests :
          conn.served[r1] # <<>> /\ conn.served[r2] # <<>>
              => conn.served[r1] = conn.served[r2]

\* C11: once a connection's AuthStatus has been recorded it never changes for
\* the lifetime of the connection, whatever is published afterwards
C11_AuthStatusNeverChanges ==
    [][conn.auth # <<>> => conn'.auth = conn.auth]_vars

\* C12: every request on a connection whose AuthStatus is not granted, the
\* first one and every later one, is answered 403 with the error message of
\* the lookup, which names the unmatched fingerprint, and is not forwarded
C12_Every403NamesFingerprint ==
    \A r \in Requests :
        conn.reply[r] # <<>> /\ ~conn.served[r][1].Granted
            => /\ conn.reply[r][1].status = "403"
               /\ conn.reply[r][1].body = PinNotFound(conn.peer.fp)

\* The pins of a snapshot that equal a fingerprint, as <<entity, client, pin>>
PinHits(md, fp) ==
    {h \in (1 .. Len(md.Entities)) \X (1 .. 2) \X (1 .. 2) :
        /\ h[2] <= Len(md.Entities[h[1]].Clients)
        /\ h[3] <= Len(md.Entities[h[1]].Clients[h[2]].Pins)
        /\ md.Entities[h[1]].Clients[h[2]].Pins[h[3]].Digest = fp}

\* entity-then-client-then-pin order
PinOrder(g, h) ==
    \/ g[1] < h[1]
    \/ g[1] = h[1] /\ g[2] < h[2]
    \/ g[1] = h[1] /\ g[2] = h[2] /\ g[3] <= h[3]

\* C13: LookupClient returns the identity of the first entity, in
\* entity-then-client-then-pin order, with a pin equal to the fingerprint,
\* and an error that contains the fingerprint when no pin equals it
C13_LookupReturnsFirstMatch ==
    call.returned =>
        LET hits == PinHits(call.md, call.fingerprint)
            res == call.result
        IN IF hits = {}
           THEN /\ res.err
                /\ \E k \in DOMAIN res.errorText : res.errorText[k] = call.fingerprint
                /\ res.EntityID = ""
                /\ res.Organization = NilString
                /\ res.OrganizationID = NilString
           ELSE LET h == CHOOSE g \in hits : \A o \in hits : PinOrder(g, o)
                    e == call.md.Entities[h[1]]
                IN /\ ~res.err
                   /\ res.EntityID = e.EntityID
                   /\ res.Organization = e.Organization
                   /\ res.OrganizationID = e.OrganizationID

\* A lookup that two entities with different ids match, answered with the first
C13_Witness ==
    /\ call.returned
    /\ \E g, h \in PinHits(call.md, call.fingerprint) :
          /\ g[1] < h[1]
          /\ call.md.Entities[g[1]].EntityID # call.md.Entities[h[1]].EntityID
          /\ call.result.EntityID = call.md.Entities[g[1]].EntityID
          /\ \A o \in PinHits(call.md, call.fingerprint) : g[1] <= o[1]

\* C14: until the first successful publish no handshake can succeed: the
\* config that answers a ClientHello (the default config, or a current config
\* built from the empty snapshot) requires a verified client certificate and
\* has no client CA
C14_NoHandshakeBeforeFirstPublish ==
    Len(snapshots) = 0
        => /\ ConfigForClient.ClientAuth = "RequireAndVerifyClientCert"
           /\ ConfigForClient.ClientCAs = {}
           /\ hello.cfg.ClientAuth = "RequireAndVerifyClientCert"
           /\ hello.cfg.ClientCAs = {}
           /\ \A p \in Peers : ~HandshakeSucceeds(ConfigForClient, p)

\* A ClientHello answered by a current config that was installed from the
\* empty snapshot, nothing published yet
C14_Witness ==
    /\ Len(snapshots) = 0
    /\ getCurrentConfig(mgr) # <<>>
    /\ hello.n = 1
    /\ hello.cfg.from = 0
    /\ hello.cfg.GetConfigForClient = FALSE

\* C15 as claimed: every change of the cache file puts bytes there that
\* verify, and after a refresh whose cache write succeeded the file is the
\* raw body of the snapshot published last
C15_CacheHoldsOnlyVerifiedBytes ==
    [][cacheFile' # cacheFile
       => /\ SignatureVerifies(cacheFile', jwksFile)
          /\ JWSDoc(cacheFile').payload.wellFormed
          /\ DecodeMetadata(JWSDoc(cacheFile').payload).md = Snapshot(parsed')]_vars

\* C15 as amended: the loop writes the cache file only after it has verified
\* and published a fetched body, and it passes exactly that body to the write;
\* when the write succeeds the file is that body, when it fails the file is as
\* before or truncated.  A file found at start-up is never written before that.
C15_CacheWrittenOnlyAfterVerify ==
    [][/\ cacheFile' # cacheFile
          => /\ fetcherPc = "notify" /\ fetcherPc' = "loop"
             /\ SignatureVerifies(fetchResult.body, jwksFile)
             /\ DecodeMetadata(JWSDoc(fetchResult.body).payload).md = Snapshot(parsed)
             /\ cacheFile' \in {fetchResult.body, TruncatedBody}
             /\ history'.wrote = "ok" <=> cacheFile' = fetchResult.body
       /\ (fetcherPc = "notify" /\ fetcherPc' = "loop" /\ history'.wrote = "ok")
          => /\ cacheFile' = fetchResult.body
             /\ DecodeMetadata(JWSDoc(cacheFile').payload).md = Snapshot(parsed')]_vars

\* A second publish has replaced the cache file of the first
C15_Witness ==
    /\ Len(snapshots) = 2
    /\ Snapshot(1) # Snapshot(2)
    /\ parsed = 2
    /\ history.outcome = "verified" /\ history.wrote = "ok"
    /\ fetcherPc = "loop"
    /\ DecodeMetadata(JWSDoc(cacheFile).payload).md = Snapshot(2)

\* C16 as claimed: when the cache file verifies at start-up its snapshot is
\* published before any fetch and the first fetch is due at file_mtime +
\* effective_ttl, at once when that is past; otherwise the snapshot stays
\* empty and the first fetch is due at once
C16_FirstFetchAtMTimePlusTTL ==
    [][(fetcherPc = "start" /\ fetcherPc' = "loop")
       => /\ \A i \in Fetches : fetchPc[i] = "unborn" /\ fetchPc'[i] = "unborn"
          /\ IF cacheFile \in Bodies /\ Verify(cacheFile, jwksFile, now).ok
             THEN /\ snapshots' = <<Verify(cacheFile, jwksFile, now).md>>
                  /\ parsed' = 1
                  /\ retry'.armed
                  /\ retry'.at = Max(now, cacheMTime + EffectiveTTL(snapshots'[1]))
             ELSE /\ snapshots' = <<>> /\ parsed' = 0
                  /\ retry'.armed /\ retry'.at = now]_vars

\* C16 as amended: as claimed, with a modification time in the future counted
\* as the time of start-up
C16_FirstFetchFromClampedMTime ==
    [][(fetcherPc = "start" /\ fetcherPc' = "loop")
       => /\ \A i \in Fetches : fetchPc[i] = "unborn" /\ fetchPc'[i] = "unborn"
          /\ IF cacheFile \in Bodies /\ Verify(cacheFile, jwksFile, now).ok
             THEN /\ snapshots' = <<Verify(cacheFile, jwksFile, now).md>>
                  /\ parsed' = 1
                  /\ retry'.armed
                  /\ retry'.at = Max(now, (IF cacheMTime > now THEN now ELSE cacheMTime)
                                           + EffectiveTTL(snapshots'[1]))
             ELSE /\ snapshots' = <<>> /\ parsed' = 0
                  /\ retry'.armed /\ retry'.at = now]_vars

\* Start-up has published a cache file whose modification time is in the
\* future; the first fetch is due one TTL after start-up and none has started
C16_Witness ==
    /\ fetcherPc = "loop"
    /\ parsed = 1
    /\ cacheMTime > now
    /\ retry.armed /\ retry.at = now + EffectiveTTL(Snapshot(1))
    /\ \A i \in Fetches : fetchPc[i] = "unborn"

\* A fetch goroutine is inside http.Get
Fetching == \E i \in Fetches : fetchPc[i] = "get"

IdentityHeaders(h) ==
    [k \in {entityIDHeader, organizationHeader, organizationIDHeader}
        |-> h[CanonicalMIMEHeaderKey(k)]]

\* The identity headers that AuthStatus auth calls for: the entity id, and each
\* organization field exactly when auth has it
IdentityOf(auth) ==
    [k \in {entityIDHeader, organizationHeader, organizationIDHeader} |->
        CASE k = entityIDHeader -> <<auth.EntityID>>
          [] k = organizationHeader -> auth.Organization
          [] k = organizationIDHeader -> auth.OrganizationID]

\* Request r is handed to the wrapped handler in this step
Forwarding(r) == conn.pc[r] = "forward" /\ conn'.pc[r] = "done"

\* C19: the identity headers of every forwarded request are those of the
\* connection's AuthStatus, whatever identity headers the client sent: the
\* entity id header is the memoised entity id, and each organization header is
\* present exactly when that entity has the field, with its value
C19_IdentityHeadersFromAuthStatus ==
    [][(\A r \in Requests :
           Forwarding(r) =>
               IdentityHeaders(conn'.reply[r][1].header) = IdentityOf(conn.auth[1]))]_vars

\* What does hold for C19: no identity header of a forwarded request comes from
\* the client; each is a value the handler read from connection.auth
C19_IdentityHeadersNeverFromClient ==
    \A r \in Requests :
        (conn.reply[r] # <<>> /\ conn.reply[r][1].status = "forwarded")
            => IdentityHeaders(conn.reply[r][1].header) = IdentityOf(conn.served[r][1])

\* The calls of the Limiter's inner handler for entity e at the instants t1..t2
RECURSIVE ForwardedIn(_, _, _)
ForwardedIn(e, t1, t2) ==
    IF t1 > t2 THEN 0 ELSE lim.forwarded[e][t1] + ForwardedIn(e, t1 + 1, t2)

\* C18: for every entity id and every limit r and burst b, the requests of the
\* entity that the Limiter forwards to its inner handler within any window of
\* length w are at most b + r*w, however many requests of the entity wait at
\* once and whatever other entities request (both sides counted in parts of
\* 1/Second of a token)
C18_ForwardedAtMostBurstPlusRate ==
    \A e \in EntityIDs : \A t1, t2 \in 0 .. MaxTime :
        t1 <= t2 =>
            ForwardedIn(e, t1, t2) * Token
                <= lim.burst * Token + tokensFromDuration(lim.limit, t2 - t1)

\* With burst 1 and one event per second, entity e1 has had one request
\* forwarded at once and one after a wait of a second, the most the window
\* allows, while a request of e2 was forwarded from its own bucket
C18_Witness ==
    /\ lim.enabled /\ lim.burst = 1 /\ lim.limit = 1
    /\ lim.forwarded["e1"][0] = 1
    /\ lim.forwarded["e1"][Second] = 1
    /\ lim.forwarded["e2"][0] = 1

\* Request r is answered 403 in this step
Refusing(r) ==
    /\ conn.reply[r] = <<>>
    /\ conn'.reply[r] # <<>>
    /\ conn'.reply[r][1].status = "403"

\* C20: a request reaches the backend only if its connection's AuthStatus is
\* granted and, when limiting is enabled, it has a token of its entity's
\* bucket; a request answered 403 never reaches the Limiter (no bucket is
\* made, no token taken) nor the backend; a request whose wait for a token is
\* cancelled is answered 429 and not forwarded
C20_BackendOnlyIfGrantedAndToken ==
    /\ [][(\A r \in Requests :
              /\ Forwarding(r) =>
                    /\ conn.auth[1].Granted
                    /\ lim'.req[r].entity = conn.auth[1].EntityID
              /\ Refusing(r) => lim' = lim)]_vars
    /\ [](\A r \in Requests :
              /\ lim.req[r].reached =>
                    /\ conn.reply[r] # <<>>
                    /\ conn.reply[r][1].status = "forwarded"
                    /\ lim.enabled =>
                          /\ lim.req[r].tokens = 1
                          /\ lim.limiters[lim.req[r].entity] # <<>>
              /\ (conn.reply[r] # <<>> /\ conn.reply[r][1].status = "403")
                    => lim.req[r] = NoWait
              /\ lim.req[r].status = "429" => ~lim.req[r].reached)

\* What does hold for C20: the order of the chain.  Only a request that
\* AuthMiddleware has handed on is at the Limiter or at the backend, with
\* limiting enabled the backend is reached with a token of the bucket of the
\* entity id in the request's context, a refused request leaves the Limiter
\* as it was, and a request answered 429 has not reached the backend
C20_ChainOrder ==
    /\ [][(\A r \in Requests : Refusing(r) => lim' = lim)]_vars
    /\ [](\A r \in Requests :
              /\ lim.req[r] # NoWait =>
                    /\ conn.reply[r] # <<>>
                    /\ conn.reply[r][1].status = "forwarded"
                    /\ lim.req[r].entity = conn.served[r][1].EntityID
              /\ (lim.req[r].reached /\ lim.enabled) =>
                    /\ lim.req[r].tokens = 1
                    /\ lim.limiters[lim.req[r].entity] # <<>>
              /\ lim.req[r].status = "429" => ~lim.req[r].reached)

\* What a text says about a field: the last of the values its members give it
Stated(text, field) ==
    LET vs == Bound(text, field)
    IN IF vs = <<>> THEN JNull ELSE vs[Len(vs)]

\* The header of a forwarded request of an entity with these organization fields
HeaderFor(inbound, organization, organizationID, name) ==
    ForwardedHeader(inbound, [EntityID |-> "example.com",
                              Organization |-> organization,
                              OrganizationID |-> organizationID])
        [CanonicalMIMEHeaderKey(name)]

\* C21: a decoded entity has a nil organization (organization_id) exactly when
\* the text does not have the field or has it as null, and otherwise has the
\* string of the text unchanged, the empty string included; the upstream
\* header is left out exactly in the nil case and carries the string otherwise
C21_NilExactlyWhenAbsentOrNull ==
    (call.returned /\ call.op = "entity" /\ call.result.ok) =>
        LET e == call.result.val
            org == Stated(call.text, "organization")
            orgID == Stated(call.text, "organization_id")
        IN /\ e.Organization = NilString <=> org.t = "null"
           /\ e.OrganizationID = NilString <=> orgID.t = "null"
           /\ org.t = "string" => e.Organization = <<org.s>>
           /\ orgID.t = "string" => e.OrganizationID = <<orgID.s>>
           /\ \A inbound \in InboundHeaders :
                 /\ HeaderFor(inbound, e.Organization, e.OrganizationID,
                              organizationHeader)
                       = IF org.t = "null" THEN <<>> ELSE <<org.s>>
                 /\ HeaderFor(inbound, e.Organization, e.OrganizationID,
                              organizationIDHeader)
                       = IF orgID.t = "null" THEN <<>> ELSE <<orgID.s>>

\* An entity text with the empty string as organization and null as
\* organization_id: the one decodes to a pointer to "", the other to nil
C21_Witness ==
    /\ call.returned /\ call.op = "entity" /\ call.result.ok
    /\ Bound(call.text, "organization") = <<JString("")>>
    /\ Bound(call.text, "organization_id") = <<JNull>>
    /\ call.result.val.Organization = <<"">>
    /\ call.result.val.OrganizationID = NilString

\* The keys of a text that is an object
Keys(text) ==
    IF text.t = "object" THEN {text.members[i].k : i \in DOMAIN text.members} ELSE {}

\* C22: for all strings a and d, {alg: a, digest: d} and the legacy
\* {name: a, value: d} both decode to Pin(a, d); an encoded Pin decodes to the
\* same Pin; a text without alg and name, or without digest and value, is an
\* error
C22_PinDecoding ==
    /\ (call.returned /\ call.op = "pin") =>
          /\ \A a, d \in TextStrings :
                call.text \in
                    {JObject(<<Member("alg", JString(a)), Member("digest", JString(d))>>),
                     JObject(<<Member("digest", JString(d)), Member("alg", JString(a))>>),
                     JObject(<<Member("name", JString(a)), Member("value", JString(d))>>),
                     JObject(<<Member("value", JString(d)), Member("name", JString(a))>>)}
                  => call.result = [ok |-> TRUE, val |-> Pin(a, d)]
          /\ (Keys(call.text) \cap {"alg", "name"} = {}
                \/ Keys(call.text) \cap {"digest", "value"} = {})
                  => ~call.result.ok
    /\ (call.returned /\ call.op = "marshal") =>
          call.result = [ok |-> TRUE, val |-> call.pin]

\* A pin text in the legacy spelling, decoded
C22_Witness ==
    /\ call.returned /\ call.op = "pin"
    /\ call.text = JObject(<<Member("name", JString("sha256")),
                             Member("value", JString("fpA"))>>)
    /\ call.result = [ok |-> TRUE, val |-> Pin("sha256", "fpA")]

\* C23: a member that no struct of the program has, at any level of the
\* document and with a value of any JSON type, is ignored: the text decodes
\* as the text without it does
C23_UnknownFieldsIgnored ==
    (call.returned /\ call.op = "metadata") =>
        /\ call.plain.ok
        /\ call.result = call.plain

\* What does hold for C23: the member is ignored at every level above the
\* pin, and in a pin when its value is a string or null
C23_UnknownFieldsIgnoredAbovePins ==
    (call.returned /\ call.op = "metadata"
        /\ (call.level # "pin" \/ call.unknown.t \in {"string", "null"})) =>
        /\ call.plain.ok
        /\ call.result = call.plain

\* The schedule C24 states for a call: cache_ttl seconds or the default, from
\* the last fetch or from now when the last fetch is later
StatedTTL == IF call.CacheTTL # 0 THEN call.CacheTTL * Second ELSE DefaultCacheTTL
StatedDelay ==
    Max(0, (IF call.lastFetch > call.at THEN call.at ELSE call.lastFetch)
               + StatedTTL - call.at)

\* C24: the effective TTL is cache_ttl seconds when cache_ttl is not zero and
\* the default otherwise, and the delay is max(0, lastFetch + TTL - now) with
\* a later lastFetch taken as now, for every cache_ttl of the integer width
C24_EffectiveTTLAndDelay ==
    (call.returned /\ call.op = "schedule") =>
        /\ call.ttl = StatedTTL
        /\ call.result = StatedDelay

\* What does hold for C24: the same, for every cache_ttl whose number of
\* seconds is a time.Duration
C24_WhereSecondsFitDuration ==
    (call.returned /\ call.op = "schedule"
        /\ call.CacheTTL * Second >= -(DurationModulus \div 2)
        /\ call.CacheTTL * Second < DurationModulus \div 2) =>
        /\ call.ttl = StatedTTL
        /\ call.result = StatedDelay

\* C25: a step that changes the manager is a SetTrusted: it installs a newly
\* allocated config that differs from baseTLSConfig(certs) in the client CA
\* pool only (same server certificate, client certificate required and
\* verified, TLS 1.2 at least), the pool being the caller's, leaves the
\* default config and the config handed to the last ClientHello as they were,
\* and a ClientHello is answered with the config installed at that moment
C25_SetTrustedInstallsFreshConfig ==
    [][/\ mgr' # mgr =>
            /\ getCurrentConfig(mgr') # <<>>
            /\ [getCurrentConfig(mgr')[1] EXCEPT !.ClientCAs = {}, !.from = Nil, !.addr = 0]
                   = baseTLSConfig(ServerCerts)
            /\ getCurrentConfig(mgr')[1].ClientCAs =
                   (IF mainPc = "setTrusted" THEN mainPool.certs ELSE bridgePool.certs)
            /\ getCurrentConfig(mgr')[1].addr \notin
                   {Config(mgr).addr, hello.cfg.addr}
                       \cup {getCurrentConfig(mgr)[i].addr : i \in DOMAIN getCurrentConfig(mgr)}
            /\ Config(mgr') = Config(mgr)
            /\ Config(mgr') = NewTLSConfigManager.defaultConfig
            /\ hello' = hello
       /\ (getCurrentConfig(mgr') # <<>>
              /\ getCurrentConfig(mgr')[1].addr = hello.cfg.addr)
            => getCurrentConfig(mgr')[1] = hello.cfg
       /\ hello'.n # hello.n =>
            /\ mgr' = mgr
            /\ hello'.cfg = (IF getCurrentConfig(mgr) = <<>>
                             THEN Config(mgr) ELSE getCurrentConfig(mgr)[1])
      ]_vars

\* A handshake was handed an installed config, and SetTrusted has since
\* installed another with a different pool
C25_Witness ==
    /\ hello.cfg.addr >= 1
    /\ getCurrentConfig(mgr) # <<>>
    /\ getCurrentConfig(mgr)[1].addr > hello.cfg.addr
    /\ getCurrentConfig(mgr)[1].ClientCAs # hello.cfg.ClientCAs
    /\ hello.cfg.ClientCAs # {}

\* NewMetadataTLSConfigManager has returned
ConstructorReturned == mainPc \notin {"addListener", "updateTrust", "setTrusted"}

\* C26: once NewMetadataTLSConfigManager has returned, the warm start is over
\* (the task has reached its event loop, where the registration was
\* accepted), and the current config holds the CA pool built from a snapshot
\* published by then: the one of the registration or a later one
C26_ReturnsAfterWarmStartWithPool ==
    ConstructorReturned =>
        /\ fetcherPc \notin {"start", "fatal"}
        /\ history.regAt["bridge"] # Nil
        /\ \E i \in DOMAIN listeners : listeners[i] = "bridge"
        /\ getCurrentConfig(mgr) # <<>>
        /\ getCurrentConfig(mgr)[1].from >= history.regAt["bridge"]
        /\ getCurrentConfig(mgr)[1].from <= parsed
        /\ getCurrentConfig(mgr)[1].ClientCAs =
               buildCertPool(issuersPerEntity(Snapshot(getCurrentConfig(mgr)[1].from)))

\* The constructor has just returned, the warm start had verified the cache
\* file, and the pool of that snapshot is installed
C26_Witness ==
    /\ mainPc = "serving"
    /\ bridgePc = "wait"
    /\ history.rebuilt = 0
    /\ history.regAt["bridge"] = 1
    /\ fetchPc = [i \in Fetches |-> "unborn"]
    /\ getCurrentConfig(mgr) # <<>>
    /\ getCurrentConfig(mgr)[1].from = 1
    /\ getCurrentConfig(mgr)[1].ClientCAs # {}

\* The certificates that parse among the issuers of all entities of md
ParseableIssuers(md) ==
    UNION {UNION {ParsePEM(md.Entities[i].Issuers[k]) :
                      k \in DOMAIN md.Entities[i].Issuers} :
               i \in DOMAIN md.Entities}

\* C27: the pool installed for a snapshot holds every issuer certificate that
\* parses, of every entity of the snapshot, and nothing else; a text that does
\* not parse is skipped; entities with the same entity id all contribute
C27_PoolHoldsEveryParseableIssuer ==
    (call.returned /\ call.op = "updateTrust") =>
        /\ getCurrentConfig(call.result) # <<>>
        /\ getCurrentConfig(call.result)[1].ClientCAs = ParseableIssuers(call.md)

\* What does hold for C27: the same for snapshots whose entity ids are all
\* different, and for every snapshot the pool holds no other certificate
C27_PoolOfDistinctEntityIds ==
    (call.returned /\ call.op = "updateTrust") =>
        /\ getCurrentConfig(call.result) # <<>>
        /\ getCurrentConfig(call.result)[1].ClientCAs \subseteq ParseableIssuers(call.md)
        /\ (\A i, j \in DOMAIN call.md.Entities :
               call.md.Entities[i].EntityID = call.md.Entities[j].EntityID => i = j)
             => getCurrentConfig(call.result)[1].ClientCAs = ParseableIssuers(call.md)

\* C28: for every entity id at most one limiter is ever made, and the map
\* holds it from then on; every request that is at or in limiter.Wait holds
\* that limiter; and a step changes the limiter of an entity only for a
\* request of that entity
C28_OneLimiterPerEntity ==
    [][/\ \A e \in EntityIDs :
             /\ lim'.made[e] <= 1
             /\ lim'.made[e] >= lim.made[e]
             /\ lim'.limiters[e] # <<>> <=> lim'.made[e] = 1
       /\ \A r \in Requests :
             lim'.req[r].pc \in {"wait", "timer"} =>
                 /\ lim'.limiters[lim'.req[r].entity] # <<>>
                 /\ lim'.req[r].limiter = 1
       /\ \A e \in EntityIDs :
             lim'.limiters[e] # lim.limiters[e] =>
                 \E r \in Requests : /\ lim'.req[r] # lim.req[r]
                                     /\ lim'.req[r].entity = e
                                     /\ \A o \in Requests \ {r} : lim'.req[o] = lim.req[o]
      ]_vars

\* The first two requests of an entity have arrived together: both have
\* called getLimiter before either has called Wait, and one limiter was made
C28_Witness ==
    /\ lim.arrivals = 2
    /\ \A r \in {1, 2} : /\ lim.req[r].pc = "wait"
                         /\ lim.req[r].entity = "e1"
                         /\ lim.req[r].limiter = 1
    /\ lim.made["e1"] = 1
    /\ lim.limiters["e1"] = <<NewLimiter>>

\* C29: while the task holds the snapshot lock it takes no other step than
\* the unlock (no I/O, no notification, no wait in its select); every call of
\* LookupClient and GetIssuerCertificates returns, whatever the task does or
\* waits for; and the bridge that has taken a notification can rebuild, at
\* once or as soon as the task has taken its one step to unlock
C29_ReadersNeverWaitForTheTask ==
    /\ [][mu = "task" => (mu' = "free" \/ UNCHANGED storeVars)]_vars
    /\ (call # NoCall /\ ~call.returned) ~> (call # NoCall /\ call.returned)
    /\ [](bridgePc = "build" => (ENABLED BridgeBuildPool \/ ENABLED TaskUnlock))
    /\ [](bridgePc = "install" => ENABLED BridgeSetTrusted)

\* A reader has returned what it found in the second snapshot while the task
\* is blocked in notifyAll for it, the bridge still being busy with the
\* notification before
C29_Witness ==
    /\ call # NoCall
    /\ call.returned
    /\ call.op = "GetIssuerCertificates"
    /\ TaskBlocked
    /\ parsed = 2
    /\ call.result[1] = issuersPerEntity(Snapshot(2))
    /\ call.result[1] # issuersPerEntity(Snapshot(1))

\* The fetches whose result the loop has not received yet
Outstanding == {i \in Fetches : fetchPc[i] \in {"get", "send"}}

\* C30: at most one fetch is outstanding; while one is, the timer is not
\* pending; a fetch is started only by the pending timer coming due, which
\* leaves no timer pending; and the timer is armed only by start-up, by the
\* step that receives a fetch result, or by the step that ends its handling
C30_OneFetchAtATime ==
    [][/\ Cardinality(Outstanding') <= 1
       /\ Outstanding' # {} => ~retry'.armed
       /\ \A i \in Fetches :
             (fetchPc'[i] = "get" /\ fetchPc[i] # "get") =>
                 /\ Outstanding = {}
                 /\ fetcherPc = "loop"
                 /\ retry.armed /\ now >= retry.at
                 /\ ~retry'.armed
       /\ (retry'.armed /\ ~retry.armed) =>
             \/ fetcherPc = "start"
             \/ \E i \in Fetches : Received(i) /\ Outstanding' = {}
             \/ fetcherPc = "notify" /\ fetcherPc' = "loop" /\ Outstanding = {}
      ]_vars

\* A second fetch is outstanding, started by the timer that the handling of
\* the first fetch's result had armed
C30_Witness ==
    /\ fetchPc[2] = "get"
    /\ fetchPc[1] \in {"close", "done"}
    /\ Outstanding = {2}
    /\ ~retry.armed
    /\ fetcherPc = "loop"
    /\ history.outcome # "none"

\* The issuer certificates listed for entity id e in a snapshot
IssuersListedFor(md, e) ==
    UNION {UNION {ParsePEM(md.Entities[i].Issuers[k]) :
                      k \in DOMAIN md.Entities[i].Issuers} :
               i \in {j \in DOMAIN md.Entities : md.Entities[j].EntityID = e}}

\* C31: a request is forwarded with entity id e only when the CA that issued
\* the peer's certificate is listed as issuer for e in a snapshot that has been
\* in force
C31_EntityOnlyWithItsOwnIssuer ==
    \A r \in Requests :
        (conn.reply[r] # <<>> /\ conn.reply[r][1].status = "forwarded") =>
            \E p \in 1 .. Len(snapshots) :
                \E e \in EntityIDs :
                    /\ conn.reply[r][1].header[CanonicalMIMEHeaderKey(entityIDHeader)] = <<e>>
                    /\ conn.peer.issuer \in IssuersListedFor(snapshots[p], e)

\* What does hold for C31: the peer's certificate was issued by a CA that some
\* entity of a published snapshot lists, whichever entity that is
C31_IssuerListedBySomeEntity ==
    \A r \in Requests :
        (conn.reply[r] # <<>> /\ conn.reply[r][1].status = "forwarded") =>
            \E p \in 1 .. Len(snapshots) :
                conn.peer.issuer \in buildCertPool(issuersPerEntity(snapshots[p]))

\* The case of C31 without any second request on the connection: one lookup,
\* a certificate issued by CA2, and the request forwarded as e1
C31_ForwardedUnderForeignIssuer ==
    /\ conn.lookups = 1
    /\ conn.peer = [fp |-> "fpA", issuer |-> "CA2"]
    /\ \E r \in Requests :
          /\ conn.reply[r] # <<>>
          /\ conn.reply[r][1].status = "forwarded"
          /\ conn.reply[r][1].header[CanonicalMIMEHeaderKey(entityIDHeader)] = <<"e1">>
          /\ \A p \in 1 .. Len(snapshots) :
                "CA2" \notin IssuersListedFor(snapshots[p], "e1")

\* The least of network_retry, bad_content_retry, default_cache_ttl and one
\* second, as configured
LeastConfiguredDelay ==
    CHOOSE d \in {NetworkRetry, BadContentRetry, DefaultCacheTTL, Second} :
        \A other \in {NetworkRetry, BadContentRetry, DefaultCacheTTL, Second} : d <= other

\* C32: the delay the loop arms after a verified document, computed from
\* time.Now() as the last fetch, is at least the least of network_retry,
\* bad_content_retry, default_cache_ttl and one second, for every cache_ttl the
\* document can carry, so that the next fetch never starts at once
C32_NoFetchRightAfterAResult ==
    (call.returned /\ call.op = "schedule" /\ call.lastFetch = call.at) =>
        call.result >= LeastConfiguredDelay

\* What does hold for C32: the same, for every cache_ttl that is not negative
\* and whose number of seconds is a time.Duration
C32_WhereCacheTTLIsNotNegative ==
    (call.returned /\ call.op = "schedule" /\ call.lastFetch = call.at
        /\ call.CacheTTL >= 0
        /\ call.CacheTTL * Second < DurationModulus \div 2) =>
        call.result >= LeastConfiguredDelay

\* What does hold for C32 in the task, whose documents carry cache_ttl 1 or
\* none: every timer the loop arms while handling a fetch result is at least
\* that long
C32_LoopArmsAtLeastTheLeastDelay ==
    [][(fetcherPc \in {"loop", "notify"} /\ retry' # retry /\ retry'.armed) =>
           /\ retry'.delay >= LeastConfiguredDelay
           /\ retry'.at >= now + LeastConfiguredDelay]_vars

\* C33: a Quit call made at any moment after the store was constructed
\* eventually returns, whatever the task is doing (still starting, waiting for
\* its timer, with a fetch outstanding or stuck, publishing a result), unless
\* start-up ended the process; the bridge keeps accepting notifications
C33_QuitEventuallyReturns ==
    (mainPc = "quitSend") ~> (mainPc = "done" \/ fetcherPc = "fatal")

\* Quit has returned while a fetch is still inside http.Get
C33_Witness ==
    /\ mainPc = "done"
    /\ fetcherPc = "stopped"
    /\ \E i \in Fetches : fetchPc[i] = "get"

\* Quit is called while the task is publishing a result and waits for the
\* bridge to take the notification
C33_QuitDuringPublish ==
    /\ mainPc = "quitSend"
    /\ fetcherPc = "notify"
    /\ bridgePc \in {"build", "install"}

\* Quit is called while the task has not reached its loop
C33_QuitDuringStartUp ==
    /\ mainPc = "quitSend"
    /\ fetcherPc = "start"

\* C34: once Quit has returned, no step replaces the published snapshot,
\* notifies a listener, writes the cache file, re-arms the timer or starts a
\* fetch, and the result of a fetch that was outstanding is never received
C34_FrozenAfterQuit ==
    [][(mainPc = "done") =>
           /\ parsed' = parsed
           /\ snapshots' = snapshots
           /\ history'.notified = history.notified
           /\ cacheFile' = cacheFile
           /\ history'.wrote = history.wrote
           /\ retry' = retry
           /\ fetcherPc' = "stopped"
           /\ \A i \in Fetches :
                 /\ fetchPc'[i] = "get" => fetchPc[i] = "get"
                 /\ fetchPc[i] = "send" => fetchPc'[i] = "send"]_vars

\* Quit has returned and a fetch that was outstanding at the stop request has
\* completed with a document that would have verified: its result waits on
\* the fetched channel
C34_Witness ==
    /\ mainPc = "done"
    /\ \E i \in Fetches :
          /\ fetchPc[i] = "send"
          /\ ~fetchRes[i].err
          /\ Verify(fetchRes[i].body, jwksFile, now).ok

====
